---- MODULE Spec2Model ----
(***************************************************************************)
(* Model of the booking coordination engine of the ticket bot:             *)
(*   - the booking store            (src/booking_storage.py)               *)
(*   - the quantity splitter        (src/bot.py, split_quantities_...)     *)
(*   - the staged trigger scheduler (src/bot.py, schedule_and_trigger)     *)
(***************************************************************************)
EXTENDS Integers, Sequences, FiniteSets, TLC

(***************************************************************************)
(* Bounds of the model.                                                    *)
(***************************************************************************)
MaxClock == 4      \* store API calls that read datetime.now() in one run
MaxTasks == 2      \* schedule_and_trigger tasks started in one run
MaxInbound == 1    \* messages from agents handled in one run
MaxSlots == 2      \* (label, quantity) pairs of one splitter input
MaxQty   == 4      \* small quantities 1..MaxQty of a splitter input
MaxMsgs  == 2      \* messages the sessions send to the bot in one run

(***************************************************************************)
(* Program constants.                                                      *)
(***************************************************************************)
DefaultMaxPerTab == 50     \* MAX_QUANTITY_PER_TAB default
LoginLead        == 120    \* login check 2 minutes before T
TabLead          == 60     \* tab opening 1 minute before T
Day              == 86400  \* timedelta(days=1), in seconds

Ids    == {"b1", "b2"}     \* booking ids
NoId   == "none"           \* Python None / absent key
NoTs   == -1               \* log entry without a "timestamp" key
Labels == {"9AM", "10AM"}  \* slot labels

VARIABLES
    primary,        \* content of scheduled_bookings.json
    shadow,         \* content of scheduled_bookings.backup.json
    clock,          \* last reading of datetime.now()
    last,           \* the last store call: operation, id, outcome and the
                    \* branch its _read_bookings took
    maxPerTab,      \* MAX_QUANTITY_PER_TAB (environment configurable)
    splitIn,        \* argument of the last split_quantities_for_multi_tab call
    splitOut,       \* its return value
    active_bookings,\* bot.py active_bookings: id -> booking
    tl,             \* one record per schedule_and_trigger task
    emitted,        \* per task, the messages handed to broadcast(), in order
    web_sent,       \* the messages the last handler of the bot handed to
                    \* broadcast_to_web(), each with what became of it in
                    \* the store
    inbound,        \* number of agent messages handled so far
    threads,        \* per thread inside a store call: position, call, the
                    \* data it read and changed, return value
    base,           \* the two files and the clock when the concurrent calls
                    \* came in
    web_clients,    \* bot.py web_clients: sessions of /ws not (yet) known
                    \* as agents
    extension_clients, \* bot.py extension_clients: sessions of /ws that
                    \* have sent hello
    connected_clients, \* bot.py connected_clients: sessions of the
                    \* standalone socket
    sessions,       \* per session: state of the connection, is_extension of
                    \* its websocket_handler, what has reached the peer
    routed,         \* the last inbound message: session, kind, the handler
                    \* it was given to, and the number of messages so far
    time_in,        \* a clock time handed to a parser, and the local time
                    \* at which it is parsed
    target_time,    \* what the parser returned for time_in
    journal         \* single-writer runs: the number of mutating calls that
                    \* returned True, the record set after the last and
                    \* after the one before, and the damage done to the
                    \* primary file from outside

storeVars == <<primary, shadow, clock, last>>
splitVars == <<maxPerTab, splitIn, splitOut>>
schedVars == <<active_bookings, tl, emitted>>
hubVars   == <<web_sent, inbound>>
raceVars  == <<threads, base>>
sessVars  == <<web_clients, extension_clients, connected_clients, sessions,
               routed>>
timeVars  == <<time_in, target_time, journal>>
vars == <<primary, shadow, clock, last, maxPerTab, splitIn, splitOut,
          active_bookings, tl, emitted, web_sent, inbound, threads, base,
          web_clients, extension_clients, connected_clients, sessions,
          routed, time_in, target_time, journal>>

(***************************************************************************)
(* Sequence helpers.                                                       *)
(***************************************************************************)
RECURSIVE SumSeq(_)
SumSeq(s) == IF s = <<>> THEN 0 ELSE Head(s) + SumSeq(Tail(s))

RECURSIVE Flatten(_)
Flatten(ss) == IF ss = <<>> THEN <<>> ELSE Head(ss) \o Flatten(Tail(ss))

SeqsUpTo(S, n) == UNION {[1..k -> S] : k \in 0..n}

IsPrefix(s, t) == Len(s) <= Len(t) /\ SubSeq(t, 1, Len(s)) = s

(***************************************************************************)
(* Booking store: files.                                                   *)
(* A file is missing, holds text json.load rejects (a truncated write),    *)
(* or holds {"bookings": [...]}.                                           *)
(***************************************************************************)
Missing  == [kind |-> "missing", bookings |-> <<>>]
Corrupt  == [kind |-> "corrupt", bookings |-> <<>>]
Json(bs) == [kind |-> "json", bookings |-> bs]

\* datetime.now(): every reading is later than the one before
Now(c) == c + 1

IdsOf(bs) == {bs[i].id : i \in 1..Len(bs)}

\* index of the first record with this id, 0 if there is none
FirstIdx(bs, id) ==
    IF \E i \in 1..Len(bs) : bs[i].id = id
    THEN CHOOSE i \in 1..Len(bs) :
            /\ bs[i].id = id
            /\ \A j \in 1..(i - 1) : bs[j].id # id
    ELSE 0

\* variant: the backup is made once and kept
write_bookings_keep_backup(p, s, data) ==
    [primary |-> Json(data),
     shadow  |-> IF p.kind # "missing" /\ s.kind = "missing" THEN p ELSE s]

\* _write_bookings: copy the primary verbatim into the backup if the primary
\* exists, then overwrite the primary with the dumped data
write_bookings(p, s, data) ==
    [primary |-> Json(data),
     shadow  |-> IF p.kind # "missing" THEN p ELSE s]

\* variant: the data of the backup is returned but the primary is not restored
recover_no_restore(p, s) ==
    IF s.kind = "json"
    THEN [data |-> s.bookings, primary |-> p, shadow |-> s,
          raised |-> FALSE, path |-> "recovered"]
    ELSE [data |-> <<>>, primary |-> p, shadow |-> s, raised |-> FALSE,
          path |-> "lost"]

\* variant: a backup json.load rejects is not caught
recover_uncaught(p, s) ==
    IF s.kind = "json"
    THEN [data |-> s.bookings, primary |-> Json(s.bookings), shadow |-> p,
          raised |-> FALSE, path |-> "recovered"]
    ELSE [data |-> <<>>, primary |-> p, shadow |-> s,
          raised |-> (s.kind = "corrupt"), path |-> "lost"]

\* _recover_from_backup: load the backup, restore the primary through
\* _write_bookings, return the data; everything that goes wrong is caught
recover_from_backup(p, s) ==
    IF s.kind = "json"
    THEN LET w == write_bookings(p, s, s.bookings)
         IN  [data |-> s.bookings, primary |-> w.primary, shadow |-> w.shadow,
              raised |-> FALSE, path |-> "recovered"]
    ELSE [data |-> <<>>, primary |-> p, shadow |-> s, raised |-> FALSE,
          path |-> "lost"]

\* _read_bookings
read_bookings(p, s) ==
    CASE p.kind = "json" ->
            [data |-> p.bookings, primary |-> p, shadow |-> s, raised |-> FALSE,
             path |-> "read"]
      [] p.kind = "corrupt" -> recover_from_backup(p, s)
      [] OTHER ->
            \* FileNotFoundError: _ensure_file_exists, then the empty set
            LET w == write_bookings(p, s, <<>>)
            IN  [data |-> <<>>, primary |-> w.primary, shadow |-> w.shadow,
                 raised |-> FALSE, path |-> "created"]

\* what a read returns in this state of the two files
Stored(p, s) == read_bookings(p, s).data

(***************************************************************************)
(* Booking store: operations.  Each returns the files and the clock after  *)
(* the call, the return value and whether an exception left the call.      *)
(***************************************************************************)
Outcome(p, s, c, ok, data, exc, path) ==
    [primary |-> p, shadow |-> s, clock |-> c, ok |-> ok, data |-> data,
     raised |-> exc, path |-> path]

get_all_bookings(p, s, c) ==
    LET r == read_bookings(p, s)
    IN  Outcome(r.primary, r.shadow, c, TRUE, r.data, r.raised, r.path)

get_booking(p, s, c, id) ==
    LET r  == read_bookings(p, s)
        i  == FirstIdx(r.data, id)
    IN  Outcome(r.primary, r.shadow, c, TRUE,
                IF i = 0 THEN <<>> ELSE <<r.data[i]>>, r.raised, r.path)

\* variant: no duplicate check
save_booking_nodup(p, s, c, booking) ==
    LET r   == IF p.kind = "json"
               THEN [data |-> p.bookings, path |-> "read"]
               ELSE [data |-> <<>>, path |-> "lost"]
        now == c + 1
        rec == [id |-> booking.id, status |-> booking.status,
                message |-> booking.message, logs |-> booking.logs,
                created_at |-> now, updated_at |-> now]
    IN  [primary |-> Json(Append(r.data, rec)), shadow |-> p, clock |-> now,
         ok |-> TRUE, data |-> <<>>, raised |-> FALSE, path |-> r.path]

\* booking: [id, status, message, logs]
save_booking(p, s, c, booking) ==
    LET r == read_bookings(p, s)
    IN  IF r.raised THEN Outcome(r.primary, r.shadow, c, FALSE, <<>>, FALSE, r.path)
        ELSE IF booking.id \in IdsOf(r.data)
        THEN Outcome(r.primary, r.shadow, c, FALSE, <<>>, FALSE, r.path)
        ELSE LET now == Now(c)
                 rec == [id |-> booking.id, status |-> booking.status,
                         message |-> booking.message, logs |-> booking.logs,
                         created_at |-> now, updated_at |-> now]
                 w   == write_bookings(r.primary, r.shadow, Append(r.data, rec))
             IN  Outcome(w.primary, w.shadow, now, TRUE, <<>>, FALSE, r.path)

\* variant: the record is rebuilt from the updates, the logs start again
ApplyUpdatesRebuild(b, updates) ==
    [k \in DOMAIN b |-> IF k \in DOMAIN updates THEN updates[k]
                         ELSE IF k = "logs" THEN <<>> ELSE b[k]]

\* updates: a function from some of the keys to their new values
ApplyUpdates(b, updates) ==
    [k \in DOMAIN b |-> IF k \in DOMAIN updates THEN updates[k] ELSE b[k]]

\* variant: an unknown id is inserted (upsert)
update_booking_upsert(p, s, c, id, updates) ==
    LET bs  == IF p.kind = "json" THEN p.bookings ELSE <<>>
        hit == {i \in 1..Len(bs) : bs[i].id = id}
        now == c + 1
        new == [id |-> id, status |-> "scheduled", message |-> "none",
                logs |-> <<>>, created_at |-> now, updated_at |-> now]
        upd(b) == [[k \in DOMAIN b |->
                      IF k \in DOMAIN updates THEN updates[k] ELSE b[k]]
                   EXCEPT !.updated_at = now]
    IN  [primary |-> Json(IF hit = {}
                          THEN Append(bs, upd(new))
                          ELSE [i \in 1..Len(bs) |->
                                  IF i \in hit THEN upd(bs[i]) ELSE bs[i]]),
         shadow |-> p, clock |-> now, ok |-> (hit # {}), data |-> <<>>,
         raised |-> FALSE, path |-> "read"]

update_booking(p, s, c, id, updates) ==
    LET r == read_bookings(p, s)
        i == FirstIdx(r.data, id)
    IN  IF r.raised \/ i = 0 THEN Outcome(r.primary, r.shadow, c, FALSE, <<>>, FALSE, r.path)
        ELSE LET now == Now(c)
                 rec == [ApplyUpdates(r.data[i], updates) EXCEPT !.updated_at = now]
                 w   == write_bookings(r.primary, r.shadow,
                                       [r.data EXCEPT ![i] = rec])
             IN  Outcome(w.primary, w.shadow, now, TRUE, <<>>, FALSE, r.path)

delete_booking(p, s, c, id) ==
    LET r    == read_bookings(p, s)
        keep == SelectSeq(r.data, LAMBDA b : b.id # id)
    IN  IF r.raised \/ Len(keep) = Len(r.data)
        THEN Outcome(r.primary, r.shadow, c, FALSE, <<>>, FALSE, r.path)
        ELSE LET w == write_bookings(r.primary, r.shadow, keep)
             IN  Outcome(w.primary, w.shadow, c, TRUE, <<>>, FALSE, r.path)

\* variant: the new entry is put in front of the log
add_log_in_front(p, s, c, id, log_entry) ==
    LET bs  == IF p.kind = "json" THEN p.bookings ELSE <<>>
        hit == {i \in 1..Len(bs) : bs[i].id = id}
        now == c + 1
        e   == IF log_entry.timestamp = -1
               THEN [log_entry EXCEPT !.timestamp = now] ELSE log_entry
    IN  IF hit = {}
        THEN [primary |-> p, shadow |-> s, clock |-> c, ok |-> FALSE,
              data |-> <<>>, raised |-> FALSE, path |-> "read"]
        ELSE [primary |-> Json([i \in 1..Len(bs) |->
                                  IF i \in hit
                                  THEN [bs[i] EXCEPT !.logs = <<e>> \o @,
                                                     !.updated_at = now]
                                  ELSE bs[i]]),
              shadow |-> p, clock |-> now, ok |-> TRUE, data |-> <<>>,
              raised |-> FALSE, path |-> "read"]

\* log_entry: [message, level, event_type, timestamp], timestamp = NoTs when
\* the key is absent
add_log_to_booking(p, s, c, id, log_entry) ==
    LET r == read_bookings(p, s)
        i == FirstIdx(r.data, id)
    IN  IF r.raised \/ i = 0 THEN Outcome(r.primary, r.shadow, c, FALSE, <<>>, FALSE, r.path)
        ELSE LET now   == Now(c)
                 entry == IF log_entry.timestamp = NoTs
                          THEN [log_entry EXCEPT !.timestamp = now]
                          ELSE log_entry
                 rec   == [r.data[i] EXCEPT !.logs = Append(@, entry),
                                            !.updated_at = now]
                 w     == write_bookings(r.primary, r.shadow,
                                         [r.data EXCEPT ![i] = rec])
             IN  Outcome(w.primary, w.shadow, now, TRUE, <<>>, FALSE, r.path)

(***************************************************************************)
(* Quantity splitter.                                                      *)
(***************************************************************************)
Min(a, b) == IF a <= b THEN a ELSE b

\* variant: min() forgotten, every tab carries what remains
TabsNoMin(time, quantity, maxq) ==
    IF quantity <= maxq
    THEN <<[time |-> time, quantity |-> quantity]>>
    ELSE [i \in 1..((quantity + maxq - 1) \div maxq) |->
            [time |-> time, quantity |-> quantity - ((i - 1) * maxq)]]

\* variant: floor division plus one instead of the ceiling
TabsOneMore(time, quantity, maxq) ==
    IF quantity <= maxq
    THEN <<[time |-> time, quantity |-> quantity]>>
    ELSE [i \in 1..((quantity \div maxq) + 1) |->
            [time |-> time,
             quantity |-> IF quantity - ((i - 1) * maxq) <= maxq
                          THEN quantity - ((i - 1) * maxq) ELSE maxq]]

\* the tabs of one slot (body of the for loop)
Tabs(time, quantity, maxq) ==
    IF quantity <= maxq
    THEN <<[time |-> time, quantity |-> quantity]>>
    ELSE LET num_tabs == (quantity + maxq - 1) \div maxq
         IN  [i \in 1..num_tabs |->
                [time |-> time,
                 quantity |-> Min(quantity - ((i - 1) * maxq), maxq)]]

split_quantities_for_multi_tab(time_slots, maxq) ==
    Flatten([k \in 1..Len(time_slots) |->
                Tabs(time_slots[k].time, time_slots[k].quantity, maxq)])

(***************************************************************************)
(* Inputs of the store API and of the splitter.                            *)
(***************************************************************************)
NoMsg == "none"

LogEntryChoices ==
    {[message |-> "note", level |-> "info", event_type |-> "general",
      timestamp |-> NoTs],
     [message |-> "check", level |-> "info", event_type |-> "login_check",
      timestamp |-> 0]}

NewBookingChoices ==
    {[id |-> i, status |-> "scheduled", message |-> NoMsg, logs |-> <<>>] :
        i \in Ids}

UpdateChoices ==
    {[status |-> "running", message |-> "go"],
     [status |-> "completed"],
     [id |-> "b2"],
     [logs |-> <<>>]}

MaxPerTabChoices == {1, 2, 3, DefaultMaxPerTab}

QtyChoices(maxq) == (0..MaxQty) \cup {maxq, maxq + 1, 2 * maxq, 2 * maxq + 1}

SlotChoices(maxq) == [time : Labels, quantity : QtyChoices(maxq)]

(***************************************************************************)
(* Store API calls (the REST routes and the bot call these directly).      *)
(***************************************************************************)
NoCall == [op |-> "none", id |-> NoId, ok |-> TRUE, data |-> <<>>,
           raised |-> FALSE, path |-> "none"]

Call(op, id, o) ==
    /\ primary' = o.primary
    /\ shadow' = o.shadow
    /\ clock' = o.clock
    /\ last' = [op |-> op, id |-> id, ok |-> o.ok, data |-> o.data,
                raised |-> o.raised, path |-> o.path]

LogsOf(bs, id) ==
    IF FirstIdx(bs, id) = 0 THEN <<>> ELSE bs[FirstIdx(bs, id)].logs

ApiGetAllBookings ==
    /\ Call("get_all_bookings", NoId, get_all_bookings(primary, shadow, clock))
    /\ UNCHANGED <<splitVars, schedVars, hubVars, raceVars, sessVars, timeVars>>

ApiGetBooking(id) ==
    /\ Call("get_booking", id, get_booking(primary, shadow, clock, id))
    /\ UNCHANGED <<splitVars, schedVars, hubVars, raceVars, sessVars, timeVars>>

ApiSaveBooking(b) ==
    /\ clock < MaxClock
    /\ Call("save_booking", b.id, save_booking(primary, shadow, clock, b))
    /\ UNCHANGED <<splitVars, schedVars, hubVars, raceVars, sessVars, timeVars>>

ApiUpdateBooking(id, u) ==
    /\ clock < MaxClock
    /\ Call("update_booking", id, update_booking(primary, shadow, clock, id, u))
    /\ UNCHANGED <<splitVars, schedVars, hubVars, raceVars, sessVars, timeVars>>

ApiDeleteBooking(id) ==
    /\ Call("delete_booking", id, delete_booking(primary, shadow, clock, id))
    /\ UNCHANGED <<splitVars, schedVars, hubVars, raceVars, sessVars, timeVars>>

ApiAddLog(id, e) ==
    /\ clock < MaxClock
    /\ Call("add_log_to_booking", id,
            add_log_to_booking(primary, shadow, clock, id, e))
    /\ UNCHANGED <<splitVars, schedVars, hubVars, raceVars, sessVars, timeVars>>

\* an interrupted write leaves a truncated file behind
CorruptPrimary ==
    /\ primary.kind = "json"
    /\ primary' = Corrupt
    /\ UNCHANGED <<shadow, clock, last, splitVars, schedVars, hubVars, raceVars, sessVars,
                   timeVars>>

CorruptShadow ==
    /\ shadow.kind = "json"
    /\ shadow' = Corrupt
    /\ UNCHANGED <<primary, clock, last, splitVars, schedVars, hubVars, raceVars, sessVars,
                   timeVars>>

RemovePrimary ==
    /\ primary.kind # "missing"
    /\ primary' = Missing
    /\ UNCHANGED <<shadow, clock, last, splitVars, schedVars, hubVars, raceVars, sessVars,
                   timeVars>>

\* one call per run: the function is pure, a second call adds nothing
SplitCall(ts) ==
    /\ splitIn = <<>>
    /\ splitIn' = ts
    /\ splitOut' = split_quantities_for_multi_tab(ts, maxPerTab)
    /\ UNCHANGED <<maxPerTab, storeVars, schedVars, hubVars, raceVars, sessVars,
                   timeVars>>

(***************************************************************************)
(* Broadcast to the web side: persistence of status updates and logs.      *)
(***************************************************************************)
Absent == "none"                 \* Python None, "" or a key that is not there
Present(x) == x # Absent         \* truthiness of an optional string

\* the store as a handler finds it; web collects what the handler hands to
\* broadcast_to_web()
StoreNow == [primary |-> primary, shadow |-> shadow, clock |-> clock,
             last |-> last, web |-> <<>>, web_clients |-> web_clients,
             extension_clients |-> extension_clients, sessions |-> sessions]

\* st after a store call with outcome o
StoreAfter(st, op, id, o) ==
    [st EXCEPT
        !.primary = o.primary,
        !.shadow = o.shadow,
        !.clock = o.clock,
        !.last = [op |-> op, id |-> id, ok |-> o.ok, data |-> o.data,
                  raised |-> o.raised, path |-> o.path],
        !.web = <<>>]

AfterCall(op, id, o) == StoreAfter(StoreNow, op, id, o)

SetStore(st) ==
    /\ primary' = st.primary
    /\ shadow' = st.shadow
    /\ clock' = st.clock
    /\ last' = st.last
    /\ web_sent' = st.web
    /\ web_clients' = st.web_clients
    /\ extension_clients' = st.extension_clients
    /\ sessions' = st.sessions

\* what the peer of a session keeps of a message it was sent: its type, how
\* it was sent (reply of a handler, broadcast to the agents, broadcast to the
\* web side), the booking it names and the names of its payload fields
Received(type, via, booking_id, fields) ==
    [type |-> type, via |-> via, booking_id |-> booking_id, fields |-> fields]

\* ws.send / websocket.send: raises unless the connection is open
CanSend(ss, s) == ss[s].link = "open"

Deliver(ss, to, r) ==
    [s \in DOMAIN ss |->
        IF s \in to /\ CanSend(ss, s)
        THEN [ss[s] EXCEPT !.outbox = Append(@, r)]
        ELSE ss[s]]

\* messages for the web side: [type, booking_id, status, message, level,
\* event_type]
WebUpdate(id, status, message) ==
    [type |-> "booking_update", booking_id |-> id, status |-> status,
     message |-> message, level |-> Absent, event_type |-> Absent]

WebEventLog(id, message, event_type) ==
    [type |-> "booking_event_log", booking_id |-> id, status |-> Absent,
     message |-> message, level |-> "info", event_type |-> event_type]

WebLog(message) ==
    [type |-> "log", booking_id |-> NoId, status |-> Absent,
     message |-> message, level |-> "info", event_type |-> Absent]

\* the updates dict _persist_booking_message builds from a booking_update
UpdatesOf(m) ==
    CASE Present(m.status) /\ Present(m.message) ->
            [status |-> m.status, message |-> m.message]
      [] Present(m.status) /\ ~Present(m.message) -> [status |-> m.status]
      [] ~Present(m.status) /\ Present(m.message) -> [message |-> m.message]
      [] OTHER -> <<>>

persist_booking_message(st, m) ==
    IF m.booking_id = NoId THEN st
    ELSE IF m.type = "booking_update"
    THEN IF UpdatesOf(m) = <<>> THEN st
         ELSE StoreAfter(st, "update_booking", m.booking_id,
                         update_booking(st.primary, st.shadow, st.clock,
                                        m.booking_id, UpdatesOf(m)))
    ELSE IF m.type = "booking_event_log"
    THEN LET ts    == Now(st.clock)
             entry == [message |-> m.message,
                       level |-> IF Present(m.level) THEN m.level ELSE "info",
                       event_type |-> IF Present(m.event_type)
                                      THEN m.event_type ELSE "general",
                       timestamp |-> ts]
         IN  StoreAfter(st, "add_log_to_booking", m.booking_id,
                        add_log_to_booking(st.primary, st.shadow, ts,
                                           m.booking_id, entry))
    ELSE st

\* the store call _persist_booking_message makes for this message
persist_call(m) ==
    IF m.booking_id = NoId THEN "none"
    ELSE IF m.type = "booking_update"
    THEN IF UpdatesOf(m) = <<>> THEN "none" ELSE "update_booking"
    ELSE IF m.type = "booking_event_log" THEN "add_log_to_booking"
    ELSE "none"

\* what web_sent keeps of a message: its kind, booking, status and event
\* type, the store call made for it and whether that call returned True
WebRecord(st, m) ==
    [type |-> m.type, booking_id |-> m.booking_id, status |-> m.status,
     event_type |-> m.event_type, store_op |-> persist_call(m),
     stored |-> /\ persist_call(m) # "none"
                /\ persist_booking_message(st, m).last.ok]

\* broadcast_to_web, the sends: every session of web_clients is sent the
\* message, a session whose send raises is discarded
web_send(st, m) ==
    [st EXCEPT
        !.sessions = Deliver(st.sessions, st.web_clients,
                             Received(m.type, "web", m.booking_id, {})),
        !.web_clients = {s \in @ : CanSend(st.sessions, s)}]

\* variant: the message is persisted only if it reached a web session
broadcast_to_web_if_delivered(st, m) ==
    IF \E s \in st.web_clients : CanSend(st.sessions, s)
    THEN [persist_booking_message(web_send(st, m), m) EXCEPT
             !.web = Append(st.web, WebRecord(st, m))]
    ELSE [web_send(st, m) EXCEPT
             !.web = Append(st.web, [WebRecord(st, m) EXCEPT
                                        !.stored = FALSE])]

\* broadcast_to_web: the sends to the web sessions, then the persistence
broadcast_to_web(st, m) ==
    [persist_booking_message(web_send(st, m), m) EXCEPT
        !.web = Append(st.web, WebRecord(st, m))]

RECURSIVE broadcast_all_to_web(_, _)
broadcast_all_to_web(st, ms) ==
    IF ms = <<>> THEN st
    ELSE broadcast_all_to_web(broadcast_to_web(st, Head(ms)), Tail(ms))

\* broadcast: every session of connected_clients and of extension_clients is
\* sent the message; a session of extension_clients whose send raises is
\* discarded, a session of connected_clients whose send raises is logged
broadcast(st, m) ==
    [st EXCEPT
        !.sessions = Deliver(st.sessions,
                             connected_clients \cup st.extension_clients,
                             Received(m.type, "broadcast", m.booking_id, {})),
        !.extension_clients = {s \in @ : CanSend(st.sessions, s)}]

RECURSIVE broadcast_all(_, _)
broadcast_all(st, ms) ==
    IF ms = <<>> THEN st
    ELSE broadcast_all(broadcast(st, Head(ms)), Tail(ms))

(***************************************************************************)
(* Trigger scheduler: schedule_and_trigger.                                *)
(***************************************************************************)
Tasks == Ids \cup {"cli"}        \* web bookings and the command line task

SchemelessUrl == [scheme |-> "none", rest |-> "rec.example/camp"]
NoUrl         == [scheme |-> "none", rest |-> Absent]   \* data.get("url") is None
HttpsUrl      == [scheme |-> "https", rest |-> "rec.example/camp"]

\* url.startswith(('http://', 'https://')), else 'https://' + url
normalize_url(url) ==
    IF url.scheme \in {"http", "https"} THEN url
    ELSE [url EXCEPT !.scheme = "https"]

\* variant: a target time that has passed is waited for as it is
wait_seconds_unshifted(delta) == delta

\* wait_seconds = target_time - now, one day later if that is negative
wait_seconds(delta) == IF delta < 0 THEN delta + Day ELSE delta

\* variant: the login check wakes up one minute before, not two
pre_login_wait_late(w) == w - TabLead
pre_login_wait(w) == w - LoginLead

\* variant: the booking-only branch wakes up two minutes before, as the login
\* check does
pre_trigger_wait_early(w) == w - LoginLead

\* variant: the tabs are opened at the trigger time itself
pre_trigger_wait_late(w) == w
pre_trigger_wait(w) == w - TabLead

HasCredentials(email, password) == Present(email) /\ Present(password)

\* variant: credentials exactly two minutes ahead still take the full branch
stage_rule_at_login_lead(email, password, plan, w) ==
    IF HasCredentials(email, password) /\ w >= LoginLead THEN "full"
    ELSE IF plan # <<>> /\ w > TabLead THEN "booking_only"
    ELSE "immediate"

\* variant: a plan exactly one minute ahead still takes the booking-only branch
stage_rule_at_lead(email, password, plan, w) ==
    IF HasCredentials(email, password) /\ w > LoginLead THEN "full"
    ELSE IF plan # <<>> /\ w >= TabLead THEN "booking_only"
    ELSE "immediate"

\* the branch schedule_and_trigger takes after store_url
stage_rule(email, password, plan, w) ==
    IF HasCredentials(email, password) /\ w > LoginLead THEN "full"
    ELSE IF plan # <<>> /\ w > TabLead THEN "booking_only"
    ELSE "immediate"

\* messages for the agents; a field that is not in the message is Absent (<<>>
\* for a list); at is the time the task has slept when it hands the message
\* to broadcast()
AgentMsg(type, k, at) ==
    [type |-> type, booking_id |-> k.booking_id, url |-> Absent,
     time_slots |-> <<>>, booking_date |-> Absent,
     slots_with_quantities |-> <<>>, auto_login |-> Absent,
     email |-> Absent, password |-> Absent, scheduled_in |-> Absent, at |-> at]

store_url_msg(k, url, w) ==
    [AgentMsg("store_url", k, 0) EXCEPT
        !.url = url,
        !.scheduled_in = w,
        !.time_slots = k.time_slots,
        !.booking_date = k.booking_date,
        !.slots_with_quantities = k.plan,
        !.auto_login = IF HasCredentials(k.email, k.password)
                       THEN "true" ELSE "false",
        !.email = IF HasCredentials(k.email, k.password)
                  THEN k.email ELSE Absent,
        !.password = IF HasCredentials(k.email, k.password)
                     THEN k.password ELSE Absent]

pre_login_msg(k, at) ==
    [AgentMsg("pre_login_trigger", k, at) EXCEPT !.url = k.url]

\* variant: the id is read from the table of active bookings
trigger_msg_shared_id(k, at) ==
    [AgentMsg("trigger", k, at) EXCEPT
        !.url = k.url,
        !.time_slots = k.time_slots,
        !.booking_id = IF "b1" \in DOMAIN active_bookings
                       THEN "b1" ELSE k.booking_id]

trigger_msg(k, at) ==
    [AgentMsg("trigger", k, at) EXCEPT !.url = k.url,
                                       !.time_slots = k.time_slots]

execute_msg(k, at) ==
    [AgentMsg("execute_booking", k, at) EXCEPT
        !.booking_date = k.booking_date,
        !.slots_with_quantities = k.plan]

\* the two web messages after the trigger of the staged rules
RunningMsgs(k) ==
    IF k.booking_id = NoId THEN <<>>
    ELSE <<WebUpdate(k.booking_id, "running", "opening tabs"),
           WebEventLog(k.booking_id, "opening tabs", "booking_start")>>

Emit(t, ms) == emitted' = [emitted EXCEPT ![t] = @ \o ms]

\* first run of the task: up to the first sleep (or to the end, when the
\* immediate rule has nothing to wait for); url.startswith raises when the
\* url is None, and the task ends there
TimelineStart(t) ==
    /\ t \in DOMAIN tl
    /\ tl[t].pc = "start"
    /\ LET k0   == tl[t]
           w    == wait_seconds(k0.delta)
           k    == [k0 EXCEPT !.wait = w, !.url = normalize_url(k0.url)]
           rule == stage_rule(k.email, k.password, k.plan, w)
           to   == IF rule = "full" THEN "full_login"
                   ELSE IF rule = "booking_only" THEN "bo_tabs"
                   ELSE IF w > 0 THEN "imm_trigger"
                   ELSE "done"
           ms   == <<store_url_msg(k, k.url, w)>>
                   \o IF to = "done"
                      THEN <<trigger_msg(k, 0)>>
                           \o IF k.plan # <<>>
                              THEN <<execute_msg(k, 0)>> ELSE <<>>
                      ELSE <<>>
           st   == IF k.booking_id # NoId
                   THEN broadcast_to_web(StoreNow, WebLog("parameters sent"))
                   ELSE StoreNow
       IN  IF k0.url = NoUrl
           THEN /\ tl' = [tl EXCEPT ![t] = [k0 EXCEPT !.wait = w,
                                                     !.pc = "raised"]]
                /\ Emit(t, <<>>)
                /\ SetStore(StoreNow)
           ELSE /\ tl' = [tl EXCEPT ![t] = [k EXCEPT !.pc = to]]
                /\ Emit(t, ms)
                /\ SetStore(broadcast_all(st, ms))
    /\ UNCHANGED <<active_bookings, splitVars, inbound, raceVars,
                   connected_clients, routed, timeVars>>

\* variant: a stage whose message reaches no agent ends the task
StageAbortsUnsent(t, from, d, ms, web, to) ==
    /\ t \in DOMAIN tl
    /\ tl[t].pc = from
    /\ IF /\ ms # <<>>
          /\ ~\E s \in connected_clients \cup extension_clients :
                 CanSend(sessions, s)
       THEN /\ tl' = [tl EXCEPT ![t].pc = "done", ![t].slept = @ + d]
            /\ Emit(t, <<>>)
            /\ SetStore(StoreNow)
       ELSE /\ tl' = [tl EXCEPT ![t].pc = to, ![t].slept = @ + d]
            /\ Emit(t, ms)
            /\ SetStore(broadcast_all_to_web(broadcast_all(StoreNow, ms), web))
    /\ UNCHANGED <<active_bookings, splitVars, inbound, raceVars,
                   connected_clients, routed, timeVars>>

\* a stage: wake up after sleeping d, hand ms to broadcast(), hand web to
\* broadcast_to_web(), go on to pc
Stage(t, from, d, ms, web, to) ==
    /\ t \in DOMAIN tl
    /\ tl[t].pc = from
    /\ tl' = [tl EXCEPT ![t].pc = to, ![t].slept = @ + d]
    /\ Emit(t, ms)
    /\ SetStore(broadcast_all_to_web(broadcast_all(StoreNow, ms), web))
    /\ UNCHANGED <<active_bookings, splitVars, inbound, raceVars,
                   connected_clients, routed, timeVars>>

\* full staged timeline
FullLoginCheck(t) ==
    /\ t \in DOMAIN tl
    /\ LET k  == tl[t]
           at == k.slept + pre_login_wait(k.wait)
       IN  Stage(t, "full_login", pre_login_wait(k.wait),
                 <<pre_login_msg(k, at)>>,
                 IF k.booking_id = NoId THEN <<>>
                 ELSE <<WebUpdate(k.booking_id, "login_check", "login check"),
                        WebEventLog(k.booking_id, "login check", "login_check")>>,
                 "full_tabs")

FullOpenTabs(t) ==
    /\ t \in DOMAIN tl
    /\ LET k == tl[t]
       IN  Stage(t, "full_tabs", TabLead, <<trigger_msg(k, k.slept + TabLead)>>,
                 RunningMsgs(k), "full_execute")

FullExecute(t) ==
    /\ t \in DOMAIN tl
    /\ LET k == tl[t]
       IN  IF k.plan # <<>>
           THEN Stage(t, "full_execute", TabLead,
                      <<execute_msg(k, k.slept + TabLead)>>,
                      <<WebEventLog(k.booking_id, "trigger time",
                                    "execute_booking")>>,
                      "done")
           ELSE Stage(t, "full_execute", TabLead, <<>>, <<>>, "done")

\* booking-only timeline
BookingOnlyOpenTabs(t) ==
    /\ t \in DOMAIN tl
    /\ LET k  == tl[t]
           at == k.slept + pre_trigger_wait(k.wait)
       IN  Stage(t, "bo_tabs", pre_trigger_wait(k.wait), <<trigger_msg(k, at)>>,
                 RunningMsgs(k), "bo_execute")

BookingOnlyExecute(t) ==
    /\ t \in DOMAIN tl
    /\ LET k == tl[t]
       IN  Stage(t, "bo_execute", TabLead,
                 <<execute_msg(k, k.slept + TabLead)>>,
                 IF k.booking_id = NoId THEN <<>>
                 ELSE <<WebEventLog(k.booking_id, "trigger time",
                                    "execute_booking")>>,
                 "done")

\* immediate timeline with something left to wait for
ImmediateTrigger(t) ==
    /\ t \in DOMAIN tl
    /\ LET k  == tl[t]
           at == k.slept + k.wait
       IN  Stage(t, "imm_trigger", k.wait,
                 <<trigger_msg(k, at)>>
                    \o IF k.plan # <<>> THEN <<execute_msg(k, at)>> ELSE <<>>,
                 <<>>, "done")

(***************************************************************************)
(* Requests that start and cancel timelines.                               *)
(***************************************************************************)
WebWaits == {60, 61, 120, 121}            \* trigger time minus now, seconds

NoCred   == [email |-> Absent, password |-> Absent]
HalfCred == [email |-> "user", password |-> Absent]
FullCred == [email |-> "user", password |-> "secret"]
CredChoices == {NoCred, HalfCred, FullCred}

BigRequest ==
    <<[time |-> "9AM", quantity |-> (2 * DefaultMaxPerTab) + 20],
      [time |-> "10AM", quantity |-> 1]>>
SlotRequests == {<<>>, BigRequest}

\* the first booking takes every combination, a second one that runs next to
\* it takes the two ends: full staged with a plan, immediate without
WebRequests(id) ==
    IF id = "b1"
    THEN [delta : WebWaits, cred : CredChoices, slots : SlotRequests]
    ELSE {[delta |-> 121, cred |-> FullCred, slots |-> BigRequest],
          [delta |-> 60, cred |-> NoCred, slots |-> <<>>]}

UrlOf(t) == IF t = "b2" THEN HttpsUrl ELSE SchemelessUrl

\* variant: one label for each slot of the request, however many units the
\* slot was split into
LabelsOfRequest(slots) ==
    LET first == {i \in 1..Len(slots) :
                     i = 1 \/ slots[i].time # slots[i - 1].time}
        nth(j) == CHOOSE i \in first :
                     Cardinality({x \in first : x < i}) = j - 1
    IN  [j \in 1..Cardinality(first) |-> slots[nth(j)].time]

\* time_slots_list: the label of every unit of the split plan
LabelsOf(slots) == [i \in 1..Len(slots) |-> slots[i].time]

NewTask(delta, url, cred, time_slots, booking_date, plan, booking_id) ==
    [pc |-> "start", delta |-> delta, wait |-> 0, slept |-> 0, url |-> url,
     email |-> cred.email, password |-> cred.password,
     time_slots |-> time_slots, booking_date |-> booking_date, plan |-> plan,
     booking_id |-> booking_id]

\* handle_web_message, schedule_booking with a trigger time in the future
ScheduleBooking(id, delta, cred, slots) ==
    /\ Cardinality(DOMAIN tl) < MaxTasks
    /\ id \notin DOMAIN tl
    /\ delta > 0
    /\ LET slots_with_quantities == split_quantities_for_multi_tab(slots, maxPerTab)
           time_slots_list == LabelsOf(slots_with_quantities)
           booking == [id |-> id, url |-> UrlOf(id), status |-> "scheduled"]
           rec == [id |-> id, status |-> "scheduled", message |-> NoMsg,
                   logs |-> <<>>]
       IN  /\ active_bookings' = (id :> booking) @@ active_bookings
           /\ SetStore(AfterCall("save_booking", id,
                                 save_booking(primary, shadow, clock, rec)))
           /\ tl' = (id :> NewTask(delta, UrlOf(id), cred, time_slots_list,
                                   "2025-12-15", slots_with_quantities, id))
                    @@ tl
           /\ emitted' = (id :> <<>>) @@ emitted
    /\ UNCHANGED <<splitVars, inbound, raceVars,
                   connected_clients, routed, timeVars>>

\* cli_task: the four line formats of parse_input_line, with a trigger time
\* that is in the past, now, or ahead
CliLine(delta, cred, time_slots, booking_date, plan) ==
    [delta |-> delta, cred |-> cred, time_slots |-> time_slots,
     booking_date |-> booking_date, plan |-> plan]

CliLines ==
    {CliLine(0, NoCred, <<>>, Absent, <<>>),
     CliLine(-30, FullCred, <<"9AM", "10AM">>, Absent, <<>>),
     CliLine(61, FullCred, <<"9AM">>, "2025-12-15",
             <<[time |-> "9AM", quantity |-> 2]>>)}

CliSchedule(line) ==
    /\ Cardinality(DOMAIN tl) < MaxTasks
    /\ "cli" \notin DOMAIN tl
    /\ tl' = ("cli" :> NewTask(line.delta, UrlOf("cli"), line.cred,
                               line.time_slots,
                               line.booking_date, line.plan, NoId)) @@ tl
    /\ emitted' = ("cli" :> <<>>) @@ emitted
    /\ web_sent' = <<>>
    /\ UNCHANGED <<active_bookings, storeVars, splitVars, inbound, raceVars,
                   sessVars, timeVars>>

\* variant: cancel_booking also cancels the task of the booking
CancelBookingAndTask(id) ==
    /\ id \in DOMAIN active_bookings
    /\ active_bookings' = [i \in DOMAIN active_bookings \ {id} |->
                              active_bookings[i]]
    /\ SetStore(AfterCall("delete_booking", id,
                          delete_booking(primary, shadow, clock, id)))
    /\ tl' = [t \in DOMAIN tl |->
                 IF t = id THEN [tl[t] EXCEPT !.pc = "done"] ELSE tl[t]]
    /\ UNCHANGED <<emitted, splitVars, inbound, raceVars,
                   connected_clients, routed, timeVars>>

\* handle_web_message, cancel_booking
CancelBooking(id) ==
    /\ id \in DOMAIN active_bookings
    /\ active_bookings' = [i \in DOMAIN active_bookings \ {id} |->
                              active_bookings[i]]
    /\ SetStore(AfterCall("delete_booking", id,
                          delete_booking(primary, shadow, clock, id)))
    /\ UNCHANGED <<tl, emitted, splitVars, inbound, raceVars,
                   connected_clients, routed, timeVars>>

(***************************************************************************)
(* Messages from the agents.  An agent on /ws (after its hello) is served  *)
(* by handle_extension_message, an agent on the standalone socket by       *)
(* handle_client_message.                                                  *)
(***************************************************************************)
\* variant: the event log of a slot result does not name the booking
WebEventNoBooking(id) ==
    [type |-> "booking_event_log", booking_id |-> NoId, status |-> Absent,
     message |-> Absent, level |-> Absent, event_type |-> Absent]

\* booking_event_log that carries an "event" object and nothing else
WebEvent(id) ==
    [type |-> "booking_event_log", booking_id |-> id, status |-> Absent,
     message |-> Absent, level |-> Absent, event_type |-> Absent]

WebLevelLog(id, message, level, event_type) ==
    [WebEventLog(id, message, event_type) EXCEPT !.level = level]

\* the booking_update of a branch, sent only when the message names a booking
StatusFor(m, status) ==
    IF m.booking_id = NoId THEN <<>>
    ELSE <<WebUpdate(m.booking_id, status, m.type)>>

\* message: [type, status, flag, booking_id]; the result is what the handler
\* hands to broadcast_to_web(), in order
handle_extension_message(m) ==
    CASE m.type = "ack" /\ m.status = "stored" ->
            <<WebLog("stored")>> \o StatusFor(m, "extension_ready")
      [] m.type = "ack" /\ m.status = "error" ->
            <<WebLog("store failed")>> \o StatusFor(m, "error")
      [] m.type = "session_status" /\ m.status = "already_logged_in" ->
            <<WebLog("logged in")>> \o StatusFor(m, "logged_in")
      [] m.type = "session_status" /\ m.status = "not_logged_in" ->
            <<WebLog("not logged in")>> \o StatusFor(m, "logging_in")
      [] m.type = "login_result" /\ m.status = "success" ->
            <<WebLog("login ok")>> \o StatusFor(m, "logged_in")
      [] m.type = "login_result" /\ m.status = "failed" ->
            <<WebLog("login failed")>> \o StatusFor(m, "error")
      [] m.type = "pre_login_result" /\ m.status = "success"
            /\ m.flag \in {"alreadyLoggedIn", "loggedIn"} ->
            <<WebLog("pre-login ok")>> \o StatusFor(m, "pre_login_complete")
      [] m.type = "pre_login_result" /\ m.status = "error" ->
            <<WebLog("pre-login failed")>> \o StatusFor(m, "error")
      [] m.type = "result" /\ m.status = "success" ->
            <<WebLog("completed")>> \o StatusFor(m, "completed")
      [] m.type = "result" /\ m.status = "partial" ->
            <<WebLog("partial")>> \o StatusFor(m, "partial")
      [] m.type = "result" /\ m.status = "error" ->
            <<WebLog("error")>> \o StatusFor(m, "failed")
      [] m.type = "booking_result" ->
            <<WebLog("slot result")>>
            \o IF m.booking_id = NoId THEN <<>> ELSE <<WebEvent(m.booking_id)>>
      [] OTHER -> <<>>

\* the booking a standalone agent's booking_result is put down to: the active
\* booking whose url is the url of the message
booking_for_url(url) ==
    IF \E id \in DOMAIN active_bookings : active_bookings[id].url = url
    THEN CHOOSE id \in DOMAIN active_bookings : active_bookings[id].url = url
    ELSE NoId

StepDetails(id) ==
    [i \in 1..4 |-> WebEventLog(id, "step", "step_detail")]

\* message: [type, status, url, multiSlot, slots, adjusted, timed]
\*   slots:    number of entries of "slots" in a multi-slot result
\*   adjusted: availableQuantity is given and actualQuantity differs from
\*             requestedQuantity
\*   timed:    timings.totalBookingTime is given
handle_client_message(m) ==
    LET booking_id == booking_for_url(m.url)
    IN  CASE m.type = "result" /\ m.multiSlot
                /\ m.status \in {"success", "partial_success"} ->
                <<WebLog("opening tabs")>>
                \o [i \in 1..m.slots |-> WebLog("slot")]
                \o <<WebLog("tabs opened")>>
          [] m.type = "result" /\ m.multiSlot /\ m.status = "error" ->
                <<WebLog("tabs failed")>>
          [] m.type = "result" /\ ~m.multiSlot
                /\ m.status \in {"success", "warning", "error"} ->
                <<WebLog("tab")>>
          [] m.type = "booking_result" /\ m.status = "success"
                /\ booking_id # NoId ->
                <<WebLevelLog(booking_id, "booked", "success", "booking_result"),
                  WebUpdate(booking_id, "completed", "booked")>>
                \o (IF m.adjusted
                    THEN <<WebLevelLog(booking_id, "adjusted", "warning",
                                       "quantity_adjustment")>>
                    ELSE <<>>)
                \o StepDetails(booking_id)
                \o (IF m.timed
                    THEN <<WebEventLog(booking_id, "total time", "timing")>>
                    ELSE <<>>)
          [] m.type = "booking_result" /\ m.status = "failed"
                /\ booking_id # NoId ->
                <<WebLevelLog(booking_id, "not booked", "error",
                              "booking_result"),
                  WebUpdate(booking_id, "failed", "not booked")>>
                \o StepDetails(booking_id)
          [] OTHER -> <<>>

ExtensionMsg(type, status, flag, booking_id) ==
    [type |-> type, status |-> status, flag |-> flag, booking_id |-> booking_id]

\* every branch of handle_extension_message for the first booking, the
\* terminal outcomes for the second, and messages that name no booking
ExtensionMessages ==
    {ExtensionMsg(x[1], x[2], x[3], "b1") :
        x \in {<<"ack", "stored", Absent>>,
               <<"ack", "error", Absent>>,
               <<"session_status", "already_logged_in", Absent>>,
               <<"session_status", "not_logged_in", Absent>>,
               <<"login_result", "success", Absent>>,
               <<"login_result", "failed", Absent>>,
               <<"pre_login_result", "success", "loggedIn">>,
               <<"pre_login_result", "success", "noLogin">>,
               <<"pre_login_result", "error", Absent>>,
               <<"result", "success", Absent>>,
               <<"result", "partial", Absent>>,
               <<"result", "error", Absent>>,
               <<"result", "failed", Absent>>,
               <<"booking_result", "success", Absent>>,
               <<"booking_result", "failed", Absent>>}}
    \cup {ExtensionMsg("result", "success", Absent, "b2"),
          ExtensionMsg("result", "success", Absent, NoId),
          ExtensionMsg("booking_result", "success", Absent, NoId)}

OtherUrl == [scheme |-> "https", rest |-> "rec.example/other"]

ClientMsg(type, status, url, multiSlot, slots, adjusted, timed) ==
    [type |-> type, status |-> status, url |-> url, multiSlot |-> multiSlot,
     slots |-> slots, adjusted |-> adjusted, timed |-> timed]

ClientMessages ==
    {ClientMsg("result", "success", SchemelessUrl, FALSE, 0, FALSE, FALSE),
     ClientMsg("result", "partial_success", SchemelessUrl, TRUE, 2, FALSE,
               FALSE),
     ClientMsg("booking_result", "success", SchemelessUrl, FALSE, 0, FALSE,
               FALSE),
     ClientMsg("booking_result", "success", SchemelessUrl, FALSE, 0, TRUE,
               TRUE),
     ClientMsg("booking_result", "failed", HttpsUrl, FALSE, 0, FALSE, FALSE),
     ClientMsg("booking_result", "partial", SchemelessUrl, FALSE, 0, FALSE,
               FALSE),
     ClientMsg("booking_result", "success", OtherUrl, FALSE, 0, FALSE, FALSE)}

\* a message from an agent on /ws
ExtensionMessage(m) ==
    /\ inbound < MaxInbound
    /\ inbound' = inbound + 1
    /\ SetStore(broadcast_all_to_web(StoreNow, handle_extension_message(m)))
    /\ UNCHANGED <<schedVars, splitVars, raceVars, connected_clients, routed,
                   timeVars>>

\* a message from an agent on the standalone socket
ClientMessage(m) ==
    /\ inbound < MaxInbound
    /\ inbound' = inbound + 1
    /\ SetStore(broadcast_all_to_web(StoreNow, handle_client_message(m)))
    /\ UNCHANGED <<schedVars, splitVars, raceVars, connected_clients, routed,
                   timeVars>>

\* the requests of the runs with agent messages: the first booking on the
\* full staged timeline, the second on the immediate one
AgentRunRequests(id) ==
    IF id = "b1"
    THEN {[delta |-> 121, cred |-> FullCred, slots |-> BigRequest]}
    ELSE {[delta |-> 60, cred |-> NoCred, slots |-> <<>>]}

(***************************************************************************)
(* Store calls from several threads.  The REST routes run in the threads   *)
(* of the Flask server, the handlers of the bot in the thread of the       *)
(* event loop.  A mutating call reads the file (shared lock for the        *)
(* duration of json.load), changes the data in memory, copies the primary  *)
(* to the backup, opens the primary for writing (which truncates it) and   *)
(* dumps; the dumped text reaches the file when the file is closed.  No    *)
(* lock is held from the read to the write.                                *)
(***************************************************************************)
Threads == {"t1", "t2"}

NoBase == [primary |-> Missing, shadow |-> Missing, clock |-> -1]

IdleThread == [pc |-> "idle", call |-> NoCall, ok |-> FALSE, data |-> <<>>]

StoreRequest(op, id, arg) == [op |-> op, id |-> id, arg |-> arg]

\* the mutating calls that come in together
RaceCalls ==
    {StoreRequest("save_booking", "b2",
                  [id |-> "b2", status |-> "scheduled", message |-> NoMsg,
                   logs |-> <<>>]),
     StoreRequest("update_booking", "b1", [status |-> "completed"]),
     StoreRequest("delete_booking", "b1", <<>>),
     StoreRequest("add_log_to_booking", "b1",
                  [message |-> "note", level |-> "info",
                   event_type |-> "general", timestamp |-> NoTs])}

\* the call run from its first to its last statement
Apply(p, s, c, call) ==
    CASE call.op = "save_booking" -> save_booking(p, s, c, call.arg)
      [] call.op = "update_booking" ->
            update_booking(p, s, c, call.id, call.arg)
      [] call.op = "delete_booking" -> delete_booking(p, s, c, call.id)
      [] call.op = "add_log_to_booking" ->
            add_log_to_booking(p, s, c, call.id, call.arg)

RaceIdle == \A t \in Threads : threads[t].pc = "idle"

\* two requests come in
RaceStart(c1, c2) ==
    /\ RaceIdle
    /\ base = NoBase
    /\ clock + Cardinality(Threads) <= MaxClock
    /\ threads' = [t \in Threads |->
                      [IdleThread EXCEPT !.pc = "called",
                                         !.call = IF t = "t1" THEN c1 ELSE c2]]
    /\ base' = [primary |-> primary, shadow |-> shadow, clock |-> clock]
    /\ UNCHANGED <<storeVars, splitVars, schedVars, hubVars, sessVars, timeVars>>

\* _read_bookings and the change of the data in memory; a call that finds
\* nothing to change returns False here
ThreadRead(t) ==
    /\ threads[t].pc = "called"
    /\ LET r == read_bookings(primary, shadow)
           o == Apply(primary, shadow, clock, threads[t].call)
       IN  /\ primary' = r.primary
           /\ shadow' = r.shadow
           /\ clock' = o.clock
           /\ threads' = [threads EXCEPT
                  ![t] = IF o.ok
                         THEN [@ EXCEPT !.pc = "read",
                                        !.data = o.primary.bookings]
                         ELSE [@ EXCEPT !.pc = "done", !.ok = FALSE]]
    /\ UNCHANGED <<last, base, splitVars, schedVars, hubVars, sessVars,
                   timeVars>>

\* _write_bookings, the copy of the primary into the backup
ThreadBackup(t) ==
    /\ threads[t].pc = "read"
    /\ shadow' = IF primary.kind # "missing" THEN primary ELSE shadow
    /\ threads' = [threads EXCEPT ![t].pc = "copied"]
    /\ UNCHANGED <<primary, clock, last, base, splitVars, schedVars, hubVars, sessVars,
                   timeVars>>

\* _write_bookings, open(bookings_file, 'w'): the file is empty from here on
ThreadOpen(t) ==
    /\ threads[t].pc = "copied"
    /\ primary' = Corrupt
    /\ threads' = [threads EXCEPT ![t].pc = "opened"]
    /\ UNCHANGED <<shadow, clock, last, base, splitVars, schedVars, hubVars, sessVars,
                   timeVars>>

\* number of records and log entries: the longer of two dumps
Size(bs) == Len(bs) + SumSeq([i \in 1..Len(bs) |-> Len(bs[i].logs)])

\* the text is written from the start of the file; where another thread has
\* written a longer text since the open, the end of that text stays behind
\* it (texts of the same number of records and log entries are taken to be
\* of the same length)
FlushResult(cur, data) ==
    IF cur.kind = "json" /\ Size(data) < Size(cur.bookings)
    THEN Corrupt
    ELSE Json(data)

\* _write_bookings, json.dump and the close of the file
ThreadFlush(t) ==
    /\ threads[t].pc = "opened"
    /\ primary' = FlushResult(primary, threads[t].data)
    /\ threads' = [threads EXCEPT ![t].pc = "done", ![t].ok = TRUE]
    /\ UNCHANGED <<shadow, clock, last, base, splitVars, schedVars, hubVars, sessVars,
                   timeVars>>

(***************************************************************************)
(* A single writer.  The calls of one thread, one after the other, first   *)
(* each call as a whole with the primary file damaged from outside between *)
(* two calls, then statement by statement with the process killed and      *)
(* started again at any statement.                                         *)
(***************************************************************************)
NoJournal == [n |-> 0, prev |-> <<>>, cur |-> <<>>, faults |-> 0,
              fresh |-> FALSE]

ReadAll == StoreRequest("get_all_bookings", NoId, <<>>)

WriterCalls ==
    {StoreRequest("save_booking", i,
                  [id |-> i, status |-> "scheduled", message |-> NoMsg,
                   logs |-> <<>>]) : i \in Ids}
    \cup {StoreRequest("update_booking", "b1",
                       [status |-> "running", message |-> "go"]),
          StoreRequest("delete_booking", "b1", <<>>),
          StoreRequest("add_log_to_booking", "b2",
                       [message |-> "note", level |-> "info",
                        event_type |-> "general", timestamp |-> NoTs])}

\* the call run on the data its _read_bookings returned
ApplyTo(data, s, c, call) ==
    IF call.op = "get_all_bookings"
    THEN Outcome(Json(data), s, c, FALSE, data, FALSE, "read")
    ELSE Apply(Json(data), s, c, call)

\* a mutating call, from its first to its last statement
WriterCall(call) ==
    /\ clock < MaxClock
    /\ LET o == Apply(primary, shadow, clock, call)
       IN  /\ Call(call.op, call.id, o)
           /\ journal' = IF o.ok
                         THEN [journal EXCEPT !.n = @ + 1,
                                              !.prev = journal.cur,
                                              !.cur = o.primary.bookings,
                                              !.fresh = FALSE]
                         ELSE [journal EXCEPT !.fresh = FALSE]
    /\ UNCHANGED <<splitVars, schedVars, hubVars, raceVars, sessVars,
                   time_in, target_time>>

\* get_all_bookings
WriterReadAll ==
    /\ Call("get_all_bookings", NoId, get_all_bookings(primary, shadow, clock))
    /\ journal' = [journal EXCEPT !.fresh = FALSE]
    /\ UNCHANGED <<splitVars, schedVars, hubVars, raceVars, sessVars,
                   time_in, target_time>>

\* the primary file is damaged from outside, once, between two calls
DamagePrimary ==
    /\ primary.kind = "json"
    /\ journal.faults = 0
    /\ primary' = Corrupt
    /\ journal' = [journal EXCEPT !.faults = 1, !.fresh = TRUE]
    /\ UNCHANGED <<shadow, clock, last, splitVars, schedVars, hubVars,
                   raceVars, sessVars, time_in, target_time>>

\* the writer, statement by statement
Writer == threads["t1"]

Goes(pc, data, ok) ==
    threads' = [threads EXCEPT !["t1"].pc = pc, !["t1"].data = data,
                               !["t1"].ok = ok]

\* after _read_bookings has returned data: a call that has something to
\* write goes on to _write_bookings, every other call returns
Proceeds(data) ==
    LET o == ApplyTo(data, shadow, clock, Writer.call)
    IN  /\ clock' = o.clock
        /\ IF o.ok THEN Goes("read", o.primary.bookings, FALSE)
           ELSE Goes("done", <<>>, FALSE)

StepCall(call) ==
    /\ Writer.pc = "idle"
    /\ clock < MaxClock
    /\ threads' = [threads EXCEPT
                      !["t1"] = [IdleThread EXCEPT !.pc = "called",
                                                   !.call = call]]
    /\ UNCHANGED <<storeVars, base, splitVars, schedVars, hubVars, sessVars,
                   timeVars>>

\* _read_bookings: json.load of the primary; if it is rejected, json.load of
\* the backup; if that is rejected too, the empty set
StepRead ==
    /\ Writer.pc = "called"
    /\ primary.kind # "missing"
    /\ IF primary.kind = "json" THEN Proceeds(primary.bookings)
       ELSE IF shadow.kind = "json"
       THEN Goes("rec_loaded", shadow.bookings, FALSE) /\ UNCHANGED clock
       ELSE Proceeds(<<>>)
    /\ UNCHANGED <<primary, shadow, last, base, splitVars, schedVars, hubVars,
                   sessVars, timeVars>>

\* _write_bookings, open(backup_file, 'w'): the backup is empty from here on
\* (in a call, and in the restoring write of _recover_from_backup)
StepBackupOpen ==
    /\ Writer.pc \in {"read", "rec_loaded"}
    /\ shadow' = Corrupt
    /\ Goes(IF Writer.pc = "read" THEN "backing" ELSE "rec_backing",
            Writer.data, FALSE)
    /\ UNCHANGED <<primary, clock, last, base, splitVars, schedVars, hubVars,
                   sessVars, timeVars>>

\* _write_bookings, dst.write(src.read()): the primary as it is
StepBackupCopy ==
    /\ Writer.pc \in {"backing", "rec_backing"}
    /\ shadow' = primary
    /\ Goes(IF Writer.pc = "backing" THEN "copied" ELSE "rec_copied",
            Writer.data, FALSE)
    /\ UNCHANGED <<primary, clock, last, base, splitVars, schedVars, hubVars,
                   sessVars, timeVars>>

\* _write_bookings, open(bookings_file, 'w')
StepOpen ==
    /\ Writer.pc \in {"copied", "rec_copied"}
    /\ primary' = Corrupt
    /\ Goes(IF Writer.pc = "copied" THEN "opened" ELSE "rec_opened",
            Writer.data, FALSE)
    /\ UNCHANGED <<shadow, clock, last, base, splitVars, schedVars, hubVars,
                   sessVars, timeVars>>

\* _write_bookings, json.dump and the close of the file, at the end of a
\* call: the call returns True
StepFlush ==
    /\ Writer.pc = "opened"
    /\ primary' = Json(Writer.data)
    /\ Goes("done", Writer.data, TRUE)
    /\ journal' = [journal EXCEPT !.n = @ + 1, !.prev = journal.cur,
                                  !.cur = Writer.data]
    /\ UNCHANGED <<shadow, clock, last, base, splitVars, schedVars, hubVars,
                   sessVars, time_in, target_time>>

\* the same at the end of the restoring write: _read_bookings returns the
\* data of the backup and the call goes on
StepRestored ==
    /\ Writer.pc = "rec_opened"
    /\ primary' = Json(Writer.data)
    /\ Proceeds(Writer.data)
    /\ UNCHANGED <<shadow, last, base, splitVars, schedVars, hubVars,
                   sessVars, timeVars>>

StepReturn ==
    /\ Writer.pc = "done"
    /\ threads' = [threads EXCEPT !["t1"] = IdleThread]
    /\ UNCHANGED <<storeVars, base, splitVars, schedVars, hubVars, sessVars,
                   timeVars>>

\* the process is killed at any statement of a call and started again; the
\* two files stay as they are
Killed ==
    /\ Writer.pc \notin {"idle", "done"}
    /\ threads' = [threads EXCEPT !["t1"] = IdleThread]
    /\ UNCHANGED <<storeVars, base, splitVars, schedVars, hubVars, sessVars,
                   timeVars>>

(***************************************************************************)
(* Trigger times.  A local time is a day number and the seconds since      *)
(* midnight; the parsers read datetime.now(LOCAL_TZ) and return a local    *)
(* time, or raise ValueError.                                              *)
(***************************************************************************)
At(day, h, m, sec) == [day |-> day, tod |-> (h * 3600) + (m * 60) + sec]

\* t2 - t1 in seconds (both carry the offset of "now", so the difference is
\* the difference of the wall clocks)
Seconds(t1, t2) == ((t2.day - t1.day) * Day) + (t2.tod - t1.tod)

\* target_time += timedelta(days=1)
NextDay(t) == [t EXCEPT !.day = @ + 1]

Raised == [ok |-> FALSE, at |-> At(0, 0, 0, 0)]
Parsed(t) == [ok |-> TRUE, at |-> t]

\* a clock time as text: "H:MM" (half = "none") or "H:MM AM" / "H:MM PM"
ClockText(h, m, half) == [h |-> h, m |-> m, half |-> half]

\* strptime "%I:%M %p": hour 1..12, minute 0..59; 12 AM is 0, 12 PM is 12
strptime_12h(c) ==
    IF c.h \in 1..12 /\ c.m \in 0..59
    THEN [ok |-> TRUE,
          hour |-> IF c.half = "AM" THEN (IF c.h = 12 THEN 0 ELSE c.h)
                   ELSE (IF c.h = 12 THEN 12 ELSE c.h + 12),
          minute |-> c.m]
    ELSE [ok |-> FALSE, hour |-> 0, minute |-> 0]

\* now.replace(hour=..., minute=..., second=0, microsecond=0): ValueError
\* unless hour is in 0..23 and minute in 0..59
replace_time(now, hour, minute) ==
    IF hour \in 0..23 /\ minute \in 0..59
    THEN Parsed(At(now.day, hour, minute, 0))
    ELSE Raised

\* variant: only a time before now is moved to the next day
tomorrow_if_before(now, r) ==
    IF r.ok /\ Seconds(now, r.at) < 0 THEN Parsed(NextDay(r.at)) ELSE r

\* if target_time <= now: target_time += timedelta(days=1)
tomorrow_if_past(now, r) ==
    IF r.ok /\ Seconds(now, r.at) <= 0 THEN Parsed(NextDay(r.at)) ELSE r

\* parse_trigger_time, the clock formats
parse_clock_time(now, c) ==
    IF c.half \in {"AM", "PM"}
    THEN LET time_obj == strptime_12h(c)
         IN  IF time_obj.ok
             THEN tomorrow_if_past(now, replace_time(now, time_obj.hour,
                                                     time_obj.minute))
             ELSE Raised
    ELSE tomorrow_if_past(now, replace_time(now, c.h, c.m))

\* parse_input_line, the HH:MM format (no AM/PM there: int() of the minute
\* part raises)
parse_input_clock(now, c) ==
    IF c.half # "none" THEN Raised
    ELSE IF ~(c.h \in 0..23 /\ c.m \in 0..59) THEN Raised
    ELSE tomorrow_if_past(now, replace_time(now, c.h, c.m))

NoTime == [parser |-> "none", now |-> At(0, 0, 0, 0),
           text |-> ClockText(0, 0, "none")]
NoTarget == Raised

\* the local times of the parse: around midnight, noon and the hours asked
\* for, on and off the minute
NowChoices ==
    {At(0, h, m, sec) : h \in {0, 9, 12, 23}, m \in {0, 59}, sec \in {0, 1}}

ClockTexts ==
    {ClockText(h, m, half) :
        h \in {0, 9, 12, 13, 23, 24}, m \in {0, 59, 60},
        half \in {"none", "AM", "PM"}}

\* a clock time is parsed for a web request or for a line of the terminal
ParseCall(parser, now, c) ==
    /\ time_in' = [parser |-> parser, now |-> now, text |-> c]
    /\ target_time' = IF parser = "parse_trigger_time"
                      THEN parse_clock_time(now, c)
                      ELSE parse_input_clock(now, c)
    /\ UNCHANGED journal
    /\ UNCHANGED <<storeVars, splitVars, schedVars, hubVars, raceVars,
                   sessVars>>

(***************************************************************************)
(* Sessions.  websocket_handler serves a connection of /ws, handler a      *)
(* connection of the standalone socket; each runs the life of one session: *)
(* register, receive until the connection ends, unregister.                *)
(***************************************************************************)
WsSessions == {"w1", "w2"}
StandaloneSessions == {"c1"}
Sessions == WsSessions \cup StandaloneSessions

NoSession == [link |-> "closed", is_extension |-> FALSE, outbox |-> <<>>]

NoData == [kind |-> "none"]

NoRouted == [n |-> 0, session |-> NoId, handler |-> "none", json |-> "none",
             type |-> Absent, data |-> NoData]

\* the text of an inbound message: nothing, not JSON, JSON that is no object,
\* or an object with its "type"
Frame(json, type) == [json |-> json, type |-> type]

SessionFrames ==
    {Frame("empty", Absent), Frame("invalid", Absent),
     Frame("array", Absent)}
    \cup {Frame("object", t) :
             t \in {"hello", "ping", "pong", "web_hello", "status_report",
                    Absent}}

\* config_manager.load_config(): the settings of the file, or an empty
\* object when the file holds {}
ConfigFiles == {"settings", "empty"}

Welcome == Received("welcome", "reply", NoId, {"message"})
Pong == Received("pong", "reply", NoId, {"timestamp"})
\* /ws: {"type": "config", "email": ..., "password": ...}
Config == Received("config", "reply", NoId, {"email", "password"})
\* standalone: {"type": "config_update", "config": {...}}
ConfigUpdate == Received("config_update", "reply", NoId,
                         {"monitoring_time", "monitoring_interval"})

\* ws.send(...) of a handler to its own session
Reply(st, s, r) == [st EXCEPT !.sessions = Deliver(@, {s}, r)]

ConnectedLog ==
    [WebLog("extension connected") EXCEPT !.level = "success"]

\* variant: the hello branch leaves the session in web_clients
ws_hello_keep_web(st, s, cfg) ==
    LET moved   == [st EXCEPT !.extension_clients = @ \cup {s},
                              !.sessions[s].is_extension = TRUE]
        greeted == Reply(moved, s, Welcome)
        sent    == IF cfg # "empty" THEN Reply(greeted, s, Config)
                   ELSE greeted
    IN  broadcast_to_web(sent, ConnectedLog)

\* websocket_handler, the branch of the first hello
ws_hello(st, s, cfg) ==
    LET moved   == [st EXCEPT !.web_clients = @ \ {s},
                              !.extension_clients = @ \cup {s},
                              !.sessions[s].is_extension = TRUE]
        greeted == Reply(moved, s, Welcome)
        sent    == IF cfg # "empty" THEN Reply(greeted, s, Config)
                   ELSE greeted
    IN  broadcast_to_web(sent, ConnectedLog)

\* variant: a message without a branch is answered with an error
handle_web_message_strict(st, s, f) ==
    IF f.type = "web_hello" THEN Reply(st, s, Welcome)
    ELSE IF f.type = "ping" THEN Reply(st, s, Pong)
    ELSE Reply(st, s, Received("error", "reply", NoId, {"message"}))

\* handle_web_message: web_hello and ping (schedule_booking is
\* ScheduleRequest, cancel_booking is CancelBooking); no branch for the rest
handle_web_message(st, s, f) ==
    IF f.type = "web_hello" THEN Reply(st, s, Welcome)
    ELSE IF f.type = "ping" THEN Reply(st, s, Pong)
    ELSE st

\* a message of a session handed to handle_extension_message: it has no
\* branch that replies to the session
extension_session_message(st, s, f) ==
    broadcast_all_to_web(st, handle_extension_message(
                                 ExtensionMsg(f.type, Absent, Absent, NoId)))

\* handle_client_message: the branches hello, ping, pong and the final else
client_session_message(st, s, f) ==
    IF f.type = "hello"
    THEN broadcast_to_web(Reply(Reply(st, s, Welcome), s, ConfigUpdate),
                          ConnectedLog)
    ELSE IF f.type = "ping" THEN Reply(st, s, Pong)
    ELSE st

\* what websocket_handler does with a message
ws_route(is_extension, f) ==
    IF f.json = "empty" THEN "skipped"
    ELSE IF f.json # "object" THEN "logged"
    ELSE IF f.type = "hello" /\ ~is_extension THEN "hello"
    ELSE IF is_extension THEN "handle_extension_message"
    ELSE "handle_web_message"

\* what handler (standalone) does with a message
client_route(f) ==
    IF f.json # "object" THEN "logged" ELSE "handle_client_message"

Routed(s, h, f, data) ==
    routed' = [n |-> routed.n + 1, session |-> s, handler |-> h,
               json |-> f.json, type |-> f.type, data |-> data]

\* a connection is opened: the handler registers it
Connect(s) ==
    /\ sessions[s].link = "closed"
    /\ sessions' = [sessions EXCEPT ![s] = [NoSession EXCEPT !.link = "open"]]
    /\ IF s \in WsSessions
       THEN /\ web_clients' = web_clients \cup {s}
            /\ UNCHANGED connected_clients
       ELSE /\ connected_clients' = connected_clients \cup {s}
            /\ UNCHANGED web_clients
    /\ UNCHANGED <<storeVars, splitVars, schedVars, hubVars, raceVars,
                   extension_clients, routed, timeVars>>

\* the peer is gone and the handler, waiting in receive, has not been told
LinkBreaks(s) ==
    /\ sessions[s].link = "open"
    /\ sessions' = [sessions EXCEPT ![s].link = "broken"]
    /\ UNCHANGED <<storeVars, splitVars, schedVars, hubVars, raceVars,
                   web_clients, extension_clients, connected_clients, routed,
                   timeVars>>

\* receive raises or the iteration ends: the finally block of the handler
Disconnect(s) ==
    /\ sessions[s].link # "closed"
    /\ sessions' = [sessions EXCEPT ![s] = NoSession]
    /\ IF s \in StandaloneSessions
       THEN /\ connected_clients' = connected_clients \ {s}
            /\ UNCHANGED <<web_clients, extension_clients>>
       ELSE IF sessions[s].is_extension
       THEN /\ extension_clients' = extension_clients \ {s}
            /\ UNCHANGED <<web_clients, connected_clients>>
       ELSE /\ web_clients' = web_clients \ {s}
            /\ UNCHANGED <<extension_clients, connected_clients>>
    /\ UNCHANGED <<storeVars, splitVars, schedVars, hubVars, raceVars,
                   routed, timeVars>>

\* websocket_handler: one message of the loop
WsReceive(s, f, cfg) ==
    /\ s \in WsSessions
    /\ sessions[s].link = "open"
    /\ routed.n < MaxMsgs
    /\ LET h == ws_route(sessions[s].is_extension, f)
       IN  /\ Routed(s, h, f, NoData)
           /\ SetStore(
                 IF h = "hello" THEN ws_hello(StoreNow, s, cfg)
                 ELSE IF h = "handle_web_message"
                 THEN handle_web_message(StoreNow, s, f)
                 ELSE IF h = "handle_extension_message"
                 THEN extension_session_message(StoreNow, s, f)
                 ELSE StoreNow)
    /\ UNCHANGED <<schedVars, splitVars, inbound, raceVars,
                   connected_clients, timeVars>>

\* handler: one message of the loop
StandaloneReceive(s, f) ==
    /\ s \in StandaloneSessions
    /\ sessions[s].link = "open"
    /\ routed.n < MaxMsgs
    /\ LET h == client_route(f)
       IN  /\ Routed(s, h, f, NoData)
           /\ SetStore(
                 IF h = "handle_client_message"
                 THEN client_session_message(StoreNow, s, f)
                 ELSE StoreNow)
    /\ UNCHANGED <<schedVars, splitVars, inbound, raceVars,
                   connected_clients, timeVars>>

(***************************************************************************)
(* schedule_booking from a web session, with everything a request may      *)
(* carry.                                                                  *)
(***************************************************************************)
NoText == [kind |-> "none"]

\* trigger_datetime: text in one of the formats of parse_trigger_datetime
\* or in another one, naming the minute delta seconds from now
DatetimeFormats ==
    {"%Y-%m-%dT%H:%M", "%Y-%m-%d %H:%M", "%Y-%m-%d %I:%M %p",
     "%B %d, %Y %H:%M", "%B %d, %Y %I:%M %p", "%m/%d/%Y %H:%M",
     "%m/%d/%Y %I:%M %p", "%d/%m/%Y %H:%M", "%d/%m/%Y %I:%M %p"}

DatetimeText(fmt, delta) == [kind |-> "datetime", fmt |-> fmt, delta |-> delta]
\* trigger_time: "+N" / "N" / "-N", a clock time, or other words
MinutesText(n) == [kind |-> "minutes", n |-> n]
ClockTimeText(c) == [kind |-> "clock", c |-> c]
WordsText == [kind |-> "words"]

\* what a parser of the request returns: the target as seconds from now
RaisedIn == [ok |-> FALSE, delta |-> 0]
ParsedIn(delta) == [ok |-> TRUE, delta |-> delta]

\* variant: a datetime that has passed is taken as it is
parse_trigger_datetime_any(text) ==
    IF text.kind # "datetime" \/ text.fmt \notin DatetimeFormats THEN RaisedIn
    ELSE ParsedIn(text.delta)

parse_trigger_datetime(text) ==
    IF text.kind # "datetime" \/ text.fmt \notin DatetimeFormats THEN RaisedIn
    ELSE IF text.delta <= 0 THEN RaisedIn
    ELSE ParsedIn(text.delta)

parse_trigger_time(now, text, time_format) ==
    IF time_format = "relative"
    THEN IF text.kind = "minutes" THEN ParsedIn(60 * text.n) ELSE RaisedIn
    ELSE IF text.kind = "clock"
    THEN LET r == parse_clock_time(now, text.c)
         IN  IF r.ok THEN ParsedIn(Seconds(now, r.at)) ELSE RaisedIn
    ELSE RaisedIn

Request(trigger_datetime, trigger_time, time_format, url, slots) ==
    [trigger_datetime |-> trigger_datetime, trigger_time |-> trigger_time,
     time_format |-> time_format, url |-> url, slots |-> slots]

\* the target time of a request, as the schedule_booking branch finds it
request_target(now, req) ==
    IF req.trigger_datetime # NoText
    THEN parse_trigger_datetime(req.trigger_datetime)
    ELSE IF req.trigger_time # NoText /\ Present(req.time_format)
    THEN parse_trigger_time(now, req.trigger_time, req.time_format)
    ELSE RaisedIn

ErrorReply == Received("error", "reply", NoId, {"message"})
Scheduled(id) == Received("booking_scheduled", "reply", id, {"booking"})

SplitLog == WebLog("splitting")

\* handle_web_message, schedule_booking; now is the local time at which
\* the handler runs.  The handler runs in the event loop after the thread
\* of the session has received the request, so the connection may be lost
\* by then: ws.send raises, the except branch takes over, its ws.send raises
\* too and the handler ends there
ScheduleRequest(s, id, now, req) ==
    /\ s \in WsSessions
    /\ sessions[s].link \in {"open", "broken"}
    /\ ~sessions[s].is_extension
    /\ routed.n < MaxMsgs
    /\ Cardinality(DOMAIN tl) < MaxTasks
    /\ id \notin DOMAIN tl
    /\ Routed(s, "handle_web_message", Frame("object", "schedule_booking"),
              req)
    /\ LET target == request_target(now, req)
           slots_with_quantities ==
               split_quantities_for_multi_tab(req.slots, maxPerTab)
           time_slots_list == LabelsOf(slots_with_quantities)
           booking == [id |-> id, url |-> req.url, status |-> "scheduled"]
           rec == [id |-> id, status |-> "scheduled", message |-> NoMsg,
                   logs |-> <<>>]
           told == IF Len(slots_with_quantities) > Len(req.slots)
                   THEN broadcast_to_web(StoreNow, SplitLog)
                   ELSE StoreNow
           saved == [StoreAfter(told, "save_booking", id,
                                save_booking(told.primary, told.shadow,
                                             told.clock, rec))
                        EXCEPT !.web = told.web]
       IN  IF target.ok
           THEN /\ active_bookings' = (id :> booking) @@ active_bookings
                /\ SetStore(Reply(saved, s, Scheduled(id)))
                /\ IF CanSend(sessions, s)
                   THEN /\ tl' = (id :> NewTask(target.delta, req.url, NoCred,
                                                time_slots_list, "2025-12-15",
                                                slots_with_quantities, id))
                                 @@ tl
                        /\ emitted' = (id :> <<>>) @@ emitted
                   ELSE UNCHANGED <<tl, emitted>>
           ELSE /\ SetStore(Reply(StoreNow, s, ErrorReply))
                /\ UNCHANGED schedVars
    /\ UNCHANGED <<splitVars, inbound, raceVars, connected_clients, timeVars>>

(***************************************************************************)
(* Initial states.  BookingStorage() runs _ensure_file_exists, so the      *)
(* primary exists after construction; no backup has been taken yet.        *)
(***************************************************************************)
InitStore ==
    /\ primary = Json(<<>>)
    /\ shadow = Missing
    /\ clock = 0
    /\ last = NoCall

InitSched ==
    /\ active_bookings = <<>>
    /\ tl = <<>>
    /\ emitted = <<>>

InitSplitter ==
    /\ splitIn = <<>>
    /\ splitOut = <<>>

InitHub ==
    /\ web_sent = <<>>
    /\ inbound = 0

InitRace ==
    /\ threads = [t \in Threads |-> IdleThread]
    /\ base = NoBase

InitTime ==
    /\ time_in = NoTime
    /\ target_time = NoTarget
    /\ journal = NoJournal

InitSess ==
    /\ web_clients = {}
    /\ extension_clients = {}
    /\ connected_clients = {}
    /\ sessions = [s \in Sessions |-> NoSession]
    /\ routed = NoRouted

Init ==
    /\ InitStore
    /\ InitSched
    /\ InitSplitter
    /\ InitHub
    /\ InitRace
    /\ InitSess
    /\ InitTime
    /\ maxPerTab = DefaultMaxPerTab

\* the splitter under every configured capacity
InitSplit ==
    /\ InitStore
    /\ InitSched
    /\ InitSplitter
    /\ InitHub
    /\ InitRace
    /\ InitSess
    /\ InitTime
    /\ maxPerTab \in MaxPerTabChoices

NextStore ==
    \/ ApiGetAllBookings
    \/ \E id \in Ids : ApiGetBooking(id)
    \/ \E b \in NewBookingChoices : ApiSaveBooking(b)
    \/ \E id \in Ids, u \in UpdateChoices : ApiUpdateBooking(id, u)
    \/ \E id \in Ids : ApiDeleteBooking(id)
    \/ \E id \in Ids, e \in LogEntryChoices : ApiAddLog(id, e)
    \/ CorruptPrimary
    \/ CorruptShadow
    \/ RemovePrimary

NextSplit ==
    \E ts \in SeqsUpTo(SlotChoices(maxPerTab), MaxSlots) : SplitCall(ts)

NextSched ==
    \/ \E id \in Ids : \E r \in WebRequests(id) :
          ScheduleBooking(id, r.delta, r.cred, r.slots)
    \/ \E line \in CliLines : CliSchedule(line)
    \/ \E id \in Ids : CancelBooking(id)
    \/ \E t \in Tasks :
          \/ TimelineStart(t)
          \/ FullLoginCheck(t)
          \/ FullOpenTabs(t)
          \/ FullExecute(t)
          \/ BookingOnlyOpenTabs(t)
          \/ BookingOnlyExecute(t)
          \/ ImmediateTrigger(t)

NextAgent ==
    \/ \E id \in Ids : \E r \in AgentRunRequests(id) :
          ScheduleBooking(id, r.delta, r.cred, r.slots)
    \/ \E id \in Ids : CancelBooking(id)
    \/ \E t \in Ids :
          \/ TimelineStart(t)
          \/ FullLoginCheck(t)
          \/ FullOpenTabs(t)
          \/ FullExecute(t)
          \/ ImmediateTrigger(t)
    \/ \E m \in ExtensionMessages : ExtensionMessage(m)
    \/ \E m \in ClientMessages : ClientMessage(m)

\* some calls one after the other, then two at the same time
NextRace ==
    \/ RaceIdle /\ \E b \in NewBookingChoices : ApiSaveBooking(b)
    \/ RaceIdle /\ \E id \in Ids, e \in LogEntryChoices : ApiAddLog(id, e)
    \/ \E c1, c2 \in RaceCalls : RaceStart(c1, c2)
    \/ \E t \in Threads :
          \/ ThreadRead(t)
          \/ ThreadBackup(t)
          \/ ThreadOpen(t)
          \/ ThreadFlush(t)

SpecStore == Init /\ [][NextStore]_vars
SpecRace == Init /\ [][NextRace]_vars
SpecAgent == Init /\ [][NextAgent]_vars
SpecSched == Init /\ [][NextSched]_vars

\* sessions come and go and send the messages that need no booking
NextSession ==
    \/ \E s \in Sessions : Connect(s)
    \/ \E s \in Sessions : LinkBreaks(s)
    \/ \E s \in Sessions : Disconnect(s)
    \/ \E s \in WsSessions, f \in SessionFrames, cfg \in ConfigFiles :
          WsReceive(s, f, cfg)
    \/ \E s \in StandaloneSessions, f \in SessionFrames :
          StandaloneReceive(s, f)

SpecSession == Init /\ [][NextSession]_vars

\* the trigger of a request: trigger_datetime in a known format one minute
\* back, now, one and three minutes ahead, or in an unknown format; the old
\* pair with minutes around zero and around one day back, with a clock time
\* that has passed, or with words; or nothing
Triggers ==
    {<<DatetimeText("%Y-%m-%dT%H:%M", d), NoText, Absent>> :
        d \in {-60, 0, 60, 180}}
    \cup {<<DatetimeText("%H:%M %d.%m.%Y", 60), NoText, Absent>>,
          <<DatetimeText("%Y-%m-%dT%H:%M", -60), MinutesText(2), "relative">>,
          <<NoText, WordsText, "relative">>,
          <<NoText, ClockTimeText(ClockText(9, 0, "none")), "absolute">>,
          <<NoText, MinutesText(2), Absent>>,
          <<NoText, NoText, "relative">>,
          <<NoText, NoText, Absent>>}
    \cup {<<NoText, MinutesText(n), "relative">> :
             n \in {-1441, -1440, -1439, -1, 0, 2}}

RequestSlots ==
    {<<>>, BigRequest,
     <<[time |-> "9AM", quantity |-> 2]>>,
     <<[time |-> "9AM", quantity |-> 0]>>,
     <<[time |-> "9AM", quantity |-> 2], [time |-> "10AM", quantity |-> -1]>>}

Requests(id) ==
    IF id = "b1"
    THEN {Request(t[1], t[2], t[3], url, slots) :
             t \in Triggers, url \in {HttpsUrl, NoUrl}, slots \in RequestSlots}
    ELSE {Request(DatetimeText("%Y-%m-%dT%H:%M", 60), NoText, Absent,
                  HttpsUrl, <<>>),
          Request(DatetimeText("%Y-%m-%dT%H:%M", 0), NoText, Absent,
                  HttpsUrl, <<>>)}

\* the requests of one web session next to an agent, and the start of the
\* timelines
NextRequest ==
    \/ \E s \in {"w1", "c1"} : Connect(s)
    \/ LinkBreaks("w1")
    \/ \E id \in Ids : \E req \in Requests(id) :
          ScheduleRequest("w1", id, At(0, 9, 0, 1), req)
    \/ \E t \in Ids : TimelineStart(t)

SpecRequest == Init /\ [][NextRequest]_vars

NextRollback ==
    \/ \E call \in WriterCalls : WriterCall(call)
    \/ WriterReadAll
    \/ DamagePrimary

SpecRollback == Init /\ [][NextRollback]_vars

NextCrash ==
    \/ \E call \in WriterCalls \cup {ReadAll} : StepCall(call)
    \/ StepRead
    \/ StepBackupOpen
    \/ StepBackupCopy
    \/ StepOpen
    \/ StepFlush
    \/ StepRestored
    \/ StepReturn
    \/ Killed

SpecCrash == Init /\ [][NextCrash]_vars

NextTime ==
    \E parser \in {"parse_trigger_time", "parse_input_line"},
       now \in NowChoices, c \in ClockTexts :
          ParseCall(parser, now, c)

SpecTime == Init /\ [][NextTime]_vars

\* one booking on the booking-only timeline next to sessions that connect,
\* introduce themselves as agents and lose their connection
HubRequest == [delta |-> 61, cred |-> NoCred, slots |-> BigRequest]

NextHub ==
    \/ \E s \in Sessions : Connect(s)
    \/ \E s \in Sessions : LinkBreaks(s)
    \/ \E s \in WsSessions : WsReceive(s, Frame("object", "hello"), "settings")
    \/ ScheduleBooking("b1", HubRequest.delta, HubRequest.cred,
                       HubRequest.slots)
    \/ TimelineStart("b1")
    \/ BookingOnlyOpenTabs("b1")
    \/ BookingOnlyExecute("b1")

SpecHub == Init /\ [][NextHub]_vars

\* a task that has slept long enough is resumed by the event loop
TimelineStep(t) ==
    \/ TimelineStart(t)
    \/ FullLoginCheck(t)
    \/ FullOpenTabs(t)
    \/ FullExecute(t)
    \/ BookingOnlyOpenTabs(t)
    \/ BookingOnlyExecute(t)
    \/ ImmediateTrigger(t)

\* scheduling and cancelling next to the running timelines, one request for
\* each staging rule
CancelRunRequests(id) ==
    IF id = "b1"
    THEN {[delta |-> 121, cred |-> FullCred, slots |-> BigRequest],
          [delta |-> 61, cred |-> NoCred, slots |-> BigRequest]}
    ELSE {[delta |-> 60, cred |-> NoCred, slots |-> <<>>]}

NextCancel ==
    \/ \E id \in Ids : \E r \in CancelRunRequests(id) :
          ScheduleBooking(id, r.delta, r.cred, r.slots)
    \/ \E id \in Ids : CancelBooking(id)
    \/ \E t \in Ids : TimelineStep(t)

\* the task of t has been created and has not run to its end; a step of the
\* timeline is possible in exactly these states (each position but "done"
\* has one stage, and a stage has no other condition)
Awake(t) == t \in DOMAIN tl /\ tl[t].pc # "done"

\* asyncio resumes a task whose sleep is over: weak fairness of the steps of
\* each timeline, with the enabling condition written out as Awake(t)
TimelineResumed(t) == []<>(~Awake(t)) \/ []<><<TimelineStep(t)>>_vars

SpecCancel ==
    /\ Init
    /\ [][NextCancel]_vars
    /\ \A t \in Ids : TimelineResumed(t)

\* a timeline of each staging rule next to a standalone agent and a /ws
\* agent that may not be there at all, or be there with the connection lost
DeliveryRequests ==
    {[delta |-> 121, cred |-> FullCred, slots |-> BigRequest],
     [delta |-> 61, cred |-> NoCred, slots |-> BigRequest],
     [delta |-> 60, cred |-> NoCred, slots |-> <<>>]}

NextDelivery ==
    \/ \E s \in {"w1", "c1"} : Connect(s)
    \/ \E s \in {"w1", "c1"} : LinkBreaks(s)
    \/ WsReceive("w1", Frame("object", "hello"), "settings")
    \/ \E r \in DeliveryRequests :
          ScheduleBooking("b1", r.delta, r.cred, r.slots)
    \/ TimelineStep("b1")

SpecDelivery ==
    /\ Init
    /\ [][NextDelivery]_vars
    /\ TimelineResumed("b1")

SpecSplit == InitSplit /\ [][NextSplit]_vars

(***************************************************************************)
(* Properties of the trigger timelines.                                    *)
(***************************************************************************)
\* the booking id a task was started with
TaskId(t) == IF t \in Ids THEN t ELSE NoId

Started(t) == t \in DOMAIN tl /\ tl[t].pc # "start"

\* what the agents were sent by task t: kind, seconds after the start of the
\* timeline, booking id
Sent(t) ==
    [i \in 1..Len(emitted[t]) |->
        [type |-> emitted[t][i].type, at |-> emitted[t][i].at,
         booking_id |-> emitted[t][i].booking_id]]

Expect(t, type, at) == [type |-> type, at |-> at, booking_id |-> TaskId(t)]

\* the sequence is sent in this order, nothing else is, and all of it has been
\* sent when the task is over
SendsExactly(t, expected) ==
    /\ IsPrefix(Sent(t), expected)
    /\ tl[t].pc = "done" => Sent(t) = expected

StatusOf(bs, id) == bs[FirstIdx(bs, id)].status

FullCase(t) ==
    /\ Started(t)
    /\ HasCredentials(tl[t].email, tl[t].password)
    /\ tl[t].wait > LoginLead

\* C1: with email and password both present and more than 120 s to wait, the
\* agents are sent exactly store_url at the start, pre_login_trigger at T-120,
\* trigger at T-60 and, if and only if the plan is not empty, execute_booking
\* at T, in this order, each with the booking id of the timeline.
C1_FullStagedSequence ==
    \A t \in DOMAIN tl :
        FullCase(t) =>
            SendsExactly(t,
                <<Expect(t, "store_url", 0),
                  Expect(t, "pre_login_trigger", tl[t].wait - 120),
                  Expect(t, "trigger", tl[t].wait - 60)>>
                \o IF tl[t].plan # <<>>
                   THEN <<Expect(t, "execute_booking", tl[t].wait)>>
                   ELSE <<>>)

C1_Witness ==
    \E t \in DOMAIN tl :
        /\ FullCase(t)
        /\ tl[t].pc = "done"
        /\ tl[t].plan # <<>>
        /\ Len(emitted[t]) = 4
        /\ emitted[t][4].type = "execute_booking"

ImmediateCase(t) ==
    /\ Started(t)
    /\ ~HasCredentials(tl[t].email, tl[t].password)
    /\ tl[t].wait <= 60

\* C2: without credentials and with at most 60 s to wait, the agents are sent
\* store_url, then after the remaining wait one trigger, then execute_booking
\* at once (no state lies between the two) if and only if there is a plan;
\* pre_login_trigger is never sent.
C2_ImmediateSequence ==
    \A t \in DOMAIN tl :
        ImmediateCase(t) =>
            /\ SendsExactly(t,
                    <<Expect(t, "store_url", 0),
                      Expect(t, "trigger", tl[t].wait)>>
                    \o IF tl[t].plan # <<>>
                       THEN <<Expect(t, "execute_booking", tl[t].wait)>>
                       ELSE <<>>)
            /\ tl[t].plan # <<>> => Len(emitted[t]) # 2
            /\ \A i \in 1..Len(emitted[t]) :
                   emitted[t][i].type # "pre_login_trigger"

C2_Witness ==
    \E t \in DOMAIN tl :
        /\ ImmediateCase(t)
        /\ tl[t].pc = "done"
        /\ tl[t].wait > 0
        /\ tl[t].plan # <<>>
        /\ Len(emitted[t]) = 3
        /\ emitted[t][3].type = "execute_booking"

BookingOnlyCase(t) ==
    /\ Started(t)
    /\ ~(HasCredentials(tl[t].email, tl[t].password) /\ tl[t].wait > 120)
    /\ tl[t].plan # <<>>
    /\ tl[t].wait > 60

\* C3: when the full staged rule does not apply, there is a plan and more
\* than 60 s to wait, the agents are sent store_url at the start, trigger at
\* T-60 and execute_booking at T, never pre_login_trigger; the step that
\* sends the trigger moves the status of the booking, where the store holds
\* it, to running.
C3_BookingOnlySequence ==
    /\ [](\A t \in DOMAIN tl :
            BookingOnlyCase(t) =>
                SendsExactly(t,
                    <<Expect(t, "store_url", 0),
                      Expect(t, "trigger", tl[t].wait - 60),
                      Expect(t, "execute_booking", tl[t].wait)>>))
    /\ [][\A t \in DOMAIN tl :
            (/\ BookingOnlyCase(t)
             /\ Len(emitted[t]) = 1
             /\ Len(emitted'[t]) = 2
             /\ t \in IdsOf(Stored(primary, shadow))) =>
                /\ emitted'[t][2].type = "trigger"
                /\ t \in IdsOf(Stored(primary', shadow'))
                /\ StatusOf(Stored(primary', shadow'), t) = "running"]_vars

C3_Witness ==
    \E t \in DOMAIN tl :
        /\ BookingOnlyCase(t)
        /\ HasCredentials(tl[t].email, tl[t].password)
        /\ tl[t].pc = "done"
        /\ Len(emitted[t]) = 3
        /\ t \in IdsOf(Stored(primary, shadow))
        /\ StatusOf(Stored(primary, shadow), t) = "running"

(***************************************************************************)
(* Properties of the quantity splitter.                                    *)
(***************************************************************************)
RECURSIVE SumFor(_, _)
SumFor(slots, label) ==
    IF slots = <<>> THEN 0
    ELSE (IF Head(slots).time = label THEN Head(slots).quantity ELSE 0)
         + SumFor(Tail(slots), label)

\* runs of equal labels: <<[time, n]>> for n consecutive pairs of one label
RECURSIVE Runs(_)
Runs(slots) ==
    IF slots = <<>> THEN <<>>
    ELSE LET rest == Runs(Tail(slots))
         IN  IF rest # <<>> /\ rest[1].time = Head(slots).time
             THEN <<[time |-> rest[1].time, n |-> rest[1].n + 1]>> \o Tail(rest)
             ELSE <<[time |-> Head(slots).time, n |-> 1]>> \o rest

\* the output's labels are the input's labels in the input's order, each input
\* pair standing for one or more consecutive output pairs
SameLabelOrder(in, out) ==
    /\ Len(Runs(out)) = Len(Runs(in))
    /\ \A k \in 1..Len(Runs(in)) :
          /\ Runs(out)[k].time = Runs(in)[k].time
          /\ Runs(out)[k].n >= Runs(in)[k].n

AllPositive(slots) == \A i \in 1..Len(slots) : slots[i].quantity >= 1

\* C4: with quantities >= 1 and maxPerUnit >= 1 the splitter preserves the
\* total quantity of every label, emits no quantity above maxPerUnit and
\* keeps the labels in input order.
C4_SplitPreservesTotals ==
    (AllPositive(splitIn) /\ maxPerTab >= 1) =>
        /\ \A l \in Labels : SumFor(splitOut, l) = SumFor(splitIn, l)
        /\ \A j \in 1..Len(splitOut) : splitOut[j].quantity <= maxPerTab
        /\ SameLabelOrder(splitIn, splitOut)

C4_Witness ==
    /\ AllPositive(splitIn)
    /\ Len(splitIn) = 2
    /\ splitIn[1].time # splitIn[2].time
    /\ splitIn[1].quantity > maxPerTab
    /\ splitIn[2].quantity > maxPerTab
    /\ Len(splitOut) > 2

\* the least n with n * m >= q
CeilDiv(q, m) == CHOOSE n \in 0..q : n * m >= q /\ (n - 1) * m < q

UnitsOf(slot, m) == IF slot.quantity <= m THEN 1 ELSE CeilDiv(slot.quantity, m)

RECURSIVE UnitsBefore(_, _, _)
UnitsBefore(slots, i, m) ==
    IF i <= 1 THEN 0
    ELSE UnitsBefore(slots, i - 1, m) + UnitsOf(slots[i - 1], m)

\* C5: a pair with quantity <= maxPerUnit yields exactly itself; a pair with
\* quantity > maxPerUnit yields ceil(quantity / maxPerUnit) consecutive pairs
\* of its label, all but the last equal to maxPerUnit, the last carrying the
\* remainder, which lies in 1..maxPerUnit.
C5_SplitShape ==
    /\ Len(splitOut) = UnitsBefore(splitIn, Len(splitIn) + 1, maxPerTab)
    /\ \A i \in 1..Len(splitIn) :
          LET q   == splitIn[i].quantity
              n   == UnitsOf(splitIn[i], maxPerTab)
              off == UnitsBefore(splitIn, i, maxPerTab)
          IN  /\ q <= maxPerTab => splitOut[off + 1] = splitIn[i]
              /\ q > maxPerTab =>
                    \A k \in 1..n :
                       /\ splitOut[off + k].time = splitIn[i].time
                       /\ k < n => splitOut[off + k].quantity = maxPerTab
                       /\ k = n =>
                            /\ splitOut[off + k].quantity
                                  = q - ((n - 1) * maxPerTab)
                            /\ splitOut[off + k].quantity \in 1..maxPerTab

C5_Witness ==
    /\ Len(splitIn) = 2
    /\ splitIn[1].quantity = 2 * maxPerTab
    /\ splitIn[2].quantity = (2 * maxPerTab) + 1
    /\ Len(splitOut) = 5

(***************************************************************************)
(* Properties of the booking store.                                        *)
(***************************************************************************)
StoreCall ==
    \/ ApiGetAllBookings
    \/ \E id \in Ids : ApiGetBooking(id)
    \/ \E b \in NewBookingChoices : ApiSaveBooking(b)
    \/ \E id \in Ids, u \in UpdateChoices : ApiUpdateBooking(id, u)
    \/ \E id \in Ids : ApiDeleteBooking(id)
    \/ \E id \in Ids, e \in LogEntryChoices : ApiAddLog(id, e)

\* C6: save_booking with an id that is already in the store returns false
\* and leaves the stored records, their fields and their order unchanged.
C6_DuplicateCreateRejected ==
    [][\A b \in NewBookingChoices :
          (/\ last'.op = "save_booking"
           /\ b.id \in IdsOf(Stored(primary, shadow))
           /\ ApiSaveBooking(b)) =>
              /\ last'.ok = FALSE
              /\ Stored(primary', shadow') = Stored(primary, shadow)]_vars

C6_Witness ==
    /\ last.op = "save_booking"
    /\ last.ok = FALSE
    /\ primary.kind = "json"
    /\ Len(primary.bookings) = 2
    /\ last.id \in IdsOf(primary.bookings)

\* C7: update_booking with an id that is not in the store returns false,
\* leaves the stored records unchanged and creates no record.
C7_UpdateMissingRejected ==
    [][\A id \in Ids, u \in UpdateChoices :
          (/\ last'.op = "update_booking"
           /\ id \notin IdsOf(Stored(primary, shadow))
           /\ ApiUpdateBooking(id, u)) =>
              /\ last'.ok = FALSE
              /\ Stored(primary', shadow') = Stored(primary, shadow)
              /\ id \notin IdsOf(Stored(primary', shadow'))]_vars

C7_Witness ==
    /\ last.op = "update_booking"
    /\ last.ok = FALSE
    /\ primary.kind = "json"
    /\ Len(primary.bookings) >= 1
    /\ last.id \notin IdsOf(primary.bookings)

\* C8: add_log_to_booking on an existing booking keeps every prior entry in
\* its position, adds the new entry at the end (length + 1), refreshes
\* updated_at of that booking and leaves every other record as it was.
C8_AppendLogKeepsPrior ==
    [][\A id \in Ids, e \in LogEntryChoices :
          (/\ last'.op = "add_log_to_booking"
           /\ id \in IdsOf(Stored(primary, shadow))
           /\ ApiAddLog(id, e)) =>
              LET old == Stored(primary, shadow)
                  new == Stored(primary', shadow')
                  i   == FirstIdx(old, id)
              IN  /\ last'.ok = TRUE
                  /\ Len(new) = Len(old)
                  /\ Len(new[i].logs) = Len(old[i].logs) + 1
                  /\ SubSeq(new[i].logs, 1, Len(old[i].logs)) = old[i].logs
                  /\ new[i].logs[Len(new[i].logs)].event_type = e.event_type
                  /\ new[i].updated_at = clock'
                  /\ new[i].updated_at > old[i].updated_at
                  /\ \A j \in 1..Len(old) : j # i => new[j] = old[j]]_vars

C8_Witness ==
    /\ last.op = "add_log_to_booking"
    /\ last.ok = TRUE
    /\ primary.kind = "json"
    /\ Len(primary.bookings) = 2
    /\ \E i \in 1..2 :
          /\ primary.bookings[i].id = last.id
          /\ Len(primary.bookings[i].logs) = 2
          /\ primary.bookings[i].logs[1] # primary.bookings[i].logs[2]

\* C9: with a malformed primary and a backup holding a record set,
\* get_all_bookings returns the backup's record set and the primary holds
\* that record set afterwards.
C9_RecoverFromShadow ==
    [][(primary.kind = "corrupt" /\ shadow.kind = "json" /\ ApiGetAllBookings) =>
          /\ last'.data = shadow.bookings
          /\ primary' = Json(shadow.bookings)]_vars

C9_Witness ==
    /\ last.op = "get_all_bookings"
    /\ last.path = "recovered"
    /\ Len(last.data) >= 1
    /\ primary = Json(last.data)

\* C10: with a malformed primary and a backup that is malformed or missing,
\* no store call raises, get and list return nothing, and the calls that
\* look a booking up find none.
C10_BothUnusableReadsEmpty ==
    [][(primary.kind = "corrupt" /\ shadow.kind # "json" /\ StoreCall) =>
          /\ last'.raised = FALSE
          /\ last'.op \in {"get_all_bookings", "get_booking"} =>
                last'.data = <<>>
          /\ last'.op \in {"update_booking", "delete_booking",
                           "add_log_to_booking"} => last'.ok = FALSE]_vars

C10_Witness ==
    /\ last.path = "lost"
    /\ last.op = "get_all_bookings"
    /\ last.data = <<>>
    /\ last.raised = FALSE
    /\ primary.kind = "corrupt"
    /\ shadow.kind = "corrupt"


\* C11: after any sequence of save, update, delete and add-log calls no two
\* stored records have the same id.
C11_IdsUnique ==
    LET bs == Stored(primary, shadow)
    IN  \A i, j \in 1..Len(bs) : bs[i].id = bs[j].id => i = j

\* C12: a save, update or add-log call on a readable store leaves, for every
\* record that was there, the former log as a prefix of the present log.
C12_LogsNeverShrink ==
    [][(/\ last'.op \in {"save_booking", "update_booking",
                         "add_log_to_booking"}
        /\ primary.kind = "json"
        /\ \/ \E b \in NewBookingChoices : ApiSaveBooking(b)
           \/ \E id \in Ids, u \in UpdateChoices : ApiUpdateBooking(id, u)
           \/ \E id \in Ids, e \in LogEntryChoices : ApiAddLog(id, e)) =>
          LET old == Stored(primary, shadow)
              new == Stored(primary', shadow')
          IN  /\ Len(new) >= Len(old)
              /\ \A i \in 1..Len(old) : IsPrefix(old[i].logs, new[i].logs)]_vars


(***************************************************************************)
(* Properties of the status of a booking and of the agent messages.        *)
(***************************************************************************)
Terminal == {"completed", "partial", "failed"}

\* position of a status on Scheduled -> [LoginCheck -> LoggingIn | LoggedIn]
\* -> Running -> {Completed | Partial | Failed}; 0 for any other value
Rank(status) ==
    CASE status = "scheduled" -> 1
      [] status = "login_check" -> 2
      [] status \in {"logging_in", "logged_in"} -> 3
      [] status = "running" -> 4
      [] status \in Terminal -> 5
      [] OTHER -> 0

StoredNow == Stored(primary, shadow)
StoredNext == Stored(primary', shadow')

\* the persisted booking_update records of the last handler
StatusWrites(sent, id) ==
    {i \in 1..Len(sent) : /\ sent[i].type = "booking_update"
                          /\ sent[i].booking_id = id
                          /\ sent[i].stored}

LogWrites(sent, id) ==
    {i \in 1..Len(sent) : /\ sent[i].type = "booking_event_log"
                          /\ sent[i].booking_id = id
                          /\ sent[i].stored}

\* C13: whenever the persisted status of a booking changes, the new value is
\* one of the chain Scheduled -> [LoginCheck -> LoggingIn | LoggedIn] ->
\* Running -> {Completed | Partial | Failed} and lies further along it than
\* the old one (steps of the chain may be skipped); in particular no other
\* value is written and a terminal status is never replaced.
C13_StatusFollowsEdges ==
    [][\A id \in Ids :
          (/\ id \in IdsOf(StoredNow)
           /\ id \in IdsOf(StoredNext)
           /\ StatusOf(StoredNext, id) # StatusOf(StoredNow, id)) =>
              /\ Rank(StatusOf(StoredNext, id)) > 0
              /\ Rank(StatusOf(StoredNext, id)) > Rank(StatusOf(StoredNow, id))
      ]_vars

TerminalFor(outcome) ==
    CASE outcome = "success" -> "completed"
      [] outcome = "partial" -> "partial"
      [] outcome \in {"error", "failed"} -> "failed"
      [] OTHER -> Absent

\* a result or booking_result of an agent on /ws names its booking; a
\* booking_result of a standalone agent is put down to a booking by its url
TerminalOutcome(id, outcome) ==
    /\ StatusOf(StoredNext, id) = TerminalFor(outcome)
    /\ Cardinality(StatusWrites(web_sent', id)) = 1

\* C14: a result or booking_result message that relates to a stored booking
\* sets its persisted status to completed on success, partial on partial and
\* failed on error or failed, by exactly one status write, on the /ws path
\* and on the standalone path.
C14_TerminalTransition ==
    [][/\ \A m \in ExtensionMessages :
            (/\ inbound' = inbound + 1
             /\ m.type \in {"result", "booking_result"}
             /\ m.booking_id \in IdsOf(StoredNow)
             /\ ExtensionMessage(m)) =>
                TerminalOutcome(m.booking_id, m.status)
       /\ \A m \in ClientMessages :
            (/\ inbound' = inbound + 1
             /\ m.type = "booking_result"
             /\ booking_for_url(m.url) \in IdsOf(StoredNow)
             /\ ClientMessage(m)) =>
                TerminalOutcome(booking_for_url(m.url), m.status)]_vars

StageTypes == {"pre_login_trigger", "trigger", "execute_booking"}

\* C16: a step of a timeline that hands pre_login_trigger, trigger or
\* execute_booking to the agents persists, for a booking the store holds, a
\* status update and a log entry of that booking, under every staging rule.
C16_StageWritesStatusAndLog ==
    [][\A t \in Ids :
          (/\ t \in DOMAIN tl
           /\ Len(emitted'[t]) > Len(emitted[t])
           /\ t \in IdsOf(StoredNow)
           /\ \E i \in (Len(emitted[t]) + 1)..Len(emitted'[t]) :
                  emitted'[t][i].type \in StageTypes) =>
              /\ StatusWrites(web_sent', t) # {}
              /\ LogWrites(web_sent', t) # {}]_vars

\* C17: every message a timeline hands to the agents carries the booking id
\* the timeline was started with, so that no message of one timeline carries
\* the id of another.
C17_MessagesCarryOwnId ==
    \A t \in DOMAIN emitted :
        \A i \in 1..Len(emitted[t]) :
            /\ emitted[t][i].booking_id = TaskId(t)
            /\ \A u \in DOMAIN emitted \ {t} :
                   TaskId(u) # NoId => emitted[t][i].booking_id # TaskId(u)

\* two timelines of different bookings have both gone past their first stage
C17_Witness ==
    /\ {"b1", "b2"} \subseteq DOMAIN emitted
    /\ Len(emitted["b1"]) >= 2
    /\ Len(emitted["b2"]) >= 2
    /\ emitted["b1"][2].booking_id = "b1"
    /\ emitted["b2"][2].booking_id = "b2"
    /\ \E t \in {"b1", "b2"} : tl[t].pc # "done"

\* a web booking whose cancel_booking has been handled
Cancelled(t) == t \in DOMAIN tl /\ t \notin DOMAIN active_bookings

\* the task sleeps toward a stage that has a message for the agents
Pending(t) ==
    \/ tl[t].pc \in {"full_login", "full_tabs", "bo_tabs", "bo_execute",
                     "imm_trigger"}
    \/ tl[t].pc = "full_execute" /\ tl[t].plan # <<>>

\* C18: cancel_booking of an active booking removes it from active_bookings
\* and from the store and leaves its timeline as it was; a cancelled timeline
\* that sleeps toward a stage still hands the message of that stage to the
\* agents when it leaves the sleep, and it runs to its end.
C18_CancelDoesNotStopTimeline ==
    /\ [][\A id \in Ids :
            (/\ id \in DOMAIN active_bookings
             /\ id \notin DOMAIN active_bookings'
             /\ CancelBooking(id)) =>
                /\ id \notin IdsOf(StoredNext)
                /\ id \in DOMAIN tl =>
                      /\ tl'[id] = tl[id]
                      /\ emitted'[id] = emitted[id]]_vars
    /\ [][\A t \in Ids :
            (/\ Cancelled(t)
             /\ Pending(t)
             /\ tl'[t].pc # tl[t].pc) =>
                /\ Len(emitted'[t]) > Len(emitted[t])
                /\ emitted'[t][Len(emitted[t]) + 1].type \in StageTypes
                /\ emitted'[t][Len(emitted[t]) + 1].booking_id = t]_vars
    /\ \A t \in Ids :
          (Cancelled(t) /\ Pending(t)) ~> (Cancelled(t) /\ tl[t].pc = "done")

\* a stage of the full timeline ran after the cancellation: its status update
\* found no booking to write to
C18_Witness ==
    \E t \in Ids :
        /\ Cancelled(t)
        /\ t \notin IdsOf(StoredNow)
        /\ Len(emitted[t]) >= 2
        /\ emitted[t][Len(emitted[t])].type \in StageTypes
        /\ \E i \in 1..Len(web_sent) :
               /\ web_sent[i].type = "booking_update"
               /\ web_sent[i].booking_id = t
               /\ web_sent[i].store_op = "update_booking"
               /\ ~web_sent[i].stored

\* C19: active_bookings holds no booking whose persisted status is terminal
\* and no booking that was cancelled (deleted from the store).
C19_ActiveOnlyWhileLive ==
    \A id \in DOMAIN active_bookings :
        /\ id \in IdsOf(StoredNow)
        /\ StatusOf(StoredNow, id) \notin Terminal

(***************************************************************************)
(* Properties of store calls that run at the same time.                    *)
(***************************************************************************)
\* a record without the readings of the clock
Plain(bs) ==
    [i \in 1..Len(bs) |->
        [id |-> bs[i].id, status |-> bs[i].status, message |-> bs[i].message,
         logs |-> [j \in 1..Len(bs[i].logs) |->
                     [message |-> bs[i].logs[j].message,
                      level |-> bs[i].logs[j].level,
                      event_type |-> bs[i].logs[j].event_type]]]]

\* what the store holds after the call of thread t and then the call of
\* thread u, run one after the other from the base
Serial(t, u) ==
    LET o1 == Apply(base.primary, base.shadow, base.clock, threads[t].call)
        o2 == Apply(o1.primary, o1.shadow, o1.clock, threads[u].call)
    IN  Plain(Stored(o2.primary, o2.shadow))

RaceOver == \A t \in Threads : threads[t].pc = "done"

\* C20: when two mutating calls that came in together have both returned,
\* the store holds what one of the two serial orders of the calls leaves
\* (so that neither change is lost).
C20_ConcurrentCallsSerializable ==
    RaceOver =>
        Plain(StoredNow) \in {Serial("t1", "t2"), Serial("t2", "t1")}

(***************************************************************************)
(* Properties of the sessions and of the two broadcasts.                   *)
(***************************************************************************)
AgentRegistry == connected_clients \cup extension_clients

\* a step in which a timeline hands messages to broadcast()
Broadcasts(t) ==
    /\ t \in DOMAIN tl
    /\ t \in DOMAIN emitted
    /\ Len(emitted'[t]) > Len(emitted[t])

SentNow(t) == SubSeq(emitted'[t], Len(emitted[t]) + 1, Len(emitted'[t]))

AsReceived(ms) ==
    [i \in 1..Len(ms) |->
        Received(ms[i].type, "broadcast", ms[i].booking_id, {})]

BroadcastsReceived(out) == SelectSeq(out, LAMBDA r : r.via = "broadcast")

\* C21: when broadcast() cannot send to a registered agent session, that
\* session is gone from the agent registry afterwards, whichever socket it
\* is on, and every other registered agent session has received the
\* messages.
C21_FailedSendEvicts ==
    [][\A t \in Ids : Broadcasts(t) =>
          \A s \in AgentRegistry :
             /\ ~CanSend(sessions, s) =>
                   /\ s \notin connected_clients'
                   /\ s \notin extension_clients'
             /\ CanSend(sessions, s) =>
                   BroadcastsReceived(sessions'[s].outbox)
                      = BroadcastsReceived(sessions[s].outbox)
                           \o AsReceived(SentNow(t))]_vars

\* the records of web_sent that name booking id and have type ty
RecordsOf(ws, id, ty) ==
    {i \in 1..Len(ws) : ws[i].booking_id = id /\ ws[i].type = ty}

LastOf(S) == CHOOSE i \in S : \A j \in S : j <= i

\* C22: every booking_update and booking_event_log a timeline hands to
\* broadcast_to_web for a booking the store holds is in the store afterwards
\* (the status of the last update, one log entry for each event log), with
\* and without web sessions and whether or not a send to them succeeds.
C22_WebBroadcastPersists ==
    [][\A id \in Ids :
          (/\ id \in DOMAIN tl
           /\ tl'[id] # tl[id]
           /\ id \in IdsOf(Stored(primary, shadow))) =>
              LET old  == Stored(primary, shadow)
                  new  == Stored(primary', shadow')
                  ups  == RecordsOf(web_sent', id, "booking_update")
                  logs == RecordsOf(web_sent', id, "booking_event_log")
              IN  /\ id \in IdsOf(new)
                  /\ ups # {} =>
                        StatusOf(new, id) = web_sent'[LastOf(ups)].status
                  /\ Len(LogsOf(new, id))
                        = Len(LogsOf(old, id)) + Cardinality(logs)]_vars

\* the running update and its event logs are in the store although the only
\* web session had lost its connection and no web session is registered
C22_Witness ==
    /\ web_clients = {}
    /\ \E s \in WsSessions :
          /\ sessions[s].link = "broken"
          /\ ~sessions[s].is_extension
    /\ RecordsOf(web_sent, "b1", "booking_update") # {}
    /\ RecordsOf(web_sent, "b1", "booking_event_log") # {}
    /\ StatusOf(Stored(primary, shadow), "b1") = "running"
    /\ Len(LogsOf(Stored(primary, shadow), "b1")) >= 1

\* C23: a connection of /ws starts in web_clients only; its first hello
\* moves it to extension_clients; no session is in both sets; the messages
\* after the hello go to handle_extension_message, the messages of a session
\* that has sent no hello go to handle_web_message.
C23_SessionClassification ==
    /\ [](web_clients \cap extension_clients = {})
    /\ [][\A s \in WsSessions :
            /\ Connect(s) =>
                  /\ s \in web_clients'
                  /\ s \notin extension_clients'
            /\ (/\ routed'.n = routed.n + 1
                /\ routed'.session = s
                /\ routed'.json = "object") =>
                  /\ (routed'.type = "hello" /\ ~sessions[s].is_extension) =>
                        /\ s \in extension_clients'
                        /\ s \notin web_clients'
                        /\ sessions'[s].is_extension
                  /\ sessions[s].is_extension =>
                        routed'.handler = "handle_extension_message"
                  /\ (~sessions[s].is_extension /\ routed'.type # "hello") =>
                        /\ routed'.handler = "handle_web_message"
                        /\ s \notin extension_clients']_vars

C23_Witness ==
    \E s, w \in WsSessions :
        /\ s \in extension_clients
        /\ routed.session = s
        /\ routed.handler = "handle_extension_message"
        /\ routed.type = "hello"
        /\ w \in web_clients
        /\ sessions[w].outbox # <<>>

PushesTo(s) ==
    {i \in 1..Len(sessions[s].outbox) :
        sessions[s].outbox[i].type \in {"config", "config_update"}}

IsAgent(s) == s \in StandaloneSessions \/ sessions[s].is_extension

\* C24: an agent session is sent, after each welcome, a configuration that
\* carries the monitoring duration and the polling interval, and at most one
\* configuration in its life, on /ws and on the standalone socket.
C24_HelloPushesSnapshotOnce ==
    \A s \in Sessions :
        IsAgent(s) =>
            LET out == sessions[s].outbox
            IN  /\ Cardinality(PushesTo(s)) <= 1
                /\ \A i \in PushesTo(s) :
                      out[i].fields = {"monitoring_time",
                                       "monitoring_interval"}
                /\ \A i \in 1..Len(out) :
                      out[i].type = "welcome" =>
                         /\ i < Len(out)
                         /\ (i + 1) \in PushesTo(s)

\* C25: a ping is answered with one pong on the session that sent it,
\* whatever the session has sent before.
C25_PingAnswered ==
    [][\A s \in Sessions :
          (/\ routed'.n = routed.n + 1
           /\ routed'.session = s
           /\ routed'.json = "object"
           /\ routed'.type = "ping") =>
              sessions'[s].outbox = Append(sessions[s].outbox, Pong)]_vars

\* the types no handler has a branch for
UnknownTypes == {"status_report", Absent}

\* C28: a message that is not JSON, or that has a type no handler knows,
\* leaves the connection open and the sessions, the registries, the table
\* of bookings, the store and the timelines as they were.
C28_BadMessageIgnored ==
    [][(/\ routed'.n = routed.n + 1
        /\ \/ routed'.json \in {"empty", "invalid"}
           \/ routed'.json = "object" /\ routed'.type \in UnknownTypes) =>
           /\ sessions'[routed'.session].link = "open"
           /\ UNCHANGED <<sessions, web_clients, extension_clients,
                          connected_clients, active_bookings, primary,
                          shadow, clock, tl>>]_vars

C28_Witness ==
    /\ routed.n = MaxMsgs
    /\ routed.json = "invalid"
    /\ routed.handler = "logged"
    /\ routed.session \in extension_clients
    /\ sessions[routed.session].link = "open"
    /\ Len(sessions[routed.session].outbox) = 2

(***************************************************************************)
(* Properties of the trigger times.                                        *)
(***************************************************************************)
\* C29: a clock time, in 24-hour or in AM/PM form, that the parser accepts
\* comes back with the hour and minute asked for and no seconds, on the day
\* of the parse if that is later than now and on the next day otherwise; so
\* it is later than now and at most one day ahead.
C29_PastClockTimeTomorrow ==
    (time_in.parser # "none" /\ target_time.ok) =>
        LET now  == time_in.now
            at   == target_time.at
            c    == time_in.text
            hour == IF c.half = "none" THEN c.h
                    ELSE (c.h % 12) + (IF c.half = "PM" THEN 12 ELSE 0)
            tod  == (hour * 3600) + (c.m * 60)
        IN  /\ at.tod = tod
            /\ tod <= now.tod => at.day = now.day + 1
            /\ tod > now.tod => at.day = now.day
            /\ Seconds(now, at) > 0
            /\ Seconds(now, at) <= Day

\* 12:00 PM asked for at 12:00:00 sharp comes back as noon of the next day
C29_Witness ==
    /\ time_in.parser = "parse_trigger_time"
    /\ time_in.text = ClockText(12, 0, "PM")
    /\ time_in.now = At(0, 12, 0, 0)
    /\ target_time.ok
    /\ target_time.at = At(1, 12, 0, 0)

(***************************************************************************)
(* Properties of schedule_booking requests.                                *)
(***************************************************************************)
\* a step that handles a schedule_booking request
Requested ==
    /\ routed'.n = routed.n + 1
    /\ routed'.type = "schedule_booking"

\* the requesting session is sent an error (which reaches it unless its
\* connection is lost) and nothing else changes: no
\* entry in the table of bookings, no record in the store, no task, no
\* message to an agent or to another session
Rejected ==
    /\ sessions' = Deliver(sessions, {routed'.session}, ErrorReply)
    /\ UNCHANGED <<active_bookings, tl, emitted, primary, shadow, clock,
                   web_clients, extension_clients, connected_clients>>

UnknownFormat(text) == text.kind = "datetime" /\ text.fmt \notin DatetimeFormats
NotAhead(text) == text.kind = "datetime" /\ text.delta <= 0

\* C26 as stated: a request whose trigger_datetime is not there, or is in
\* no known format, or names a time that is not ahead of now, is rejected.
C26_BadTriggerRejectedAsStated ==
    [][(/\ Requested
        /\ \/ routed'.data.trigger_datetime = NoText
           \/ UnknownFormat(routed'.data.trigger_datetime)
           \/ NotAhead(routed'.data.trigger_datetime)) => Rejected]_vars

\* C26 as amended: a request whose trigger_datetime is there and is in no
\* known format or names a time that is not ahead of now, or that has
\* neither trigger_datetime nor both of trigger_time and time_format, is
\* rejected.
C26_BadTriggerRejected ==
    [][(/\ Requested
        /\ \/ UnknownFormat(routed'.data.trigger_datetime)
           \/ NotAhead(routed'.data.trigger_datetime)
           \/ /\ routed'.data.trigger_datetime = NoText
              /\ \/ routed'.data.trigger_time = NoText
                 \/ ~Present(routed'.data.time_format)) => Rejected]_vars

\* a request for the present minute is turned down while an earlier booking
\* stays as it is
C26_Witness ==
    /\ routed.n = 2
    /\ routed.type = "schedule_booking"
    /\ routed.data.trigger_datetime = DatetimeText("%Y-%m-%dT%H:%M", 0)
    /\ sessions[routed.session].outbox = <<Scheduled("b1"), ErrorReply>>
    /\ DOMAIN active_bookings = {"b1"}
    /\ DOMAIN tl = {"b1"}
    /\ IdsOf(Stored(primary, shadow)) = {"b1"}

NonPositive(slots) == \E i \in 1..Len(slots) : slots[i].quantity <= 0

\* C27: a request with a slot whose quantity is zero or less, or without a
\* url, is rejected.
C27_BadSlotOrUrlRejected ==
    [][(/\ Requested
        /\ \/ NonPositive(routed'.data.slots)
           \/ routed'.data.url = NoUrl) => Rejected]_vars

\* C30: a task whose target time has passed when it starts waits for the
\* target time of the next day: the wait is the difference plus one day, the
\* staging rule is the rule of that wait, the task goes on (it ends only by
\* the immediate rule with nothing to wait for), and the wait is positive
\* when the target time is less than a day back.
C30_PastTargetShiftedOneDay ==
    \A t \in DOMAIN tl :
        (Started(t) /\ tl[t].delta < 0 /\ tl[t].url # NoUrl) =>
            LET w    == tl[t].delta + Day
                rule == stage_rule(tl[t].email, tl[t].password, tl[t].plan, w)
            IN  /\ tl[t].wait = w
                /\ tl[t].delta > -Day => tl[t].wait > 0
                /\ tl[t].pc = (IF rule = "full" THEN "full_login"
                               ELSE IF rule = "booking_only" THEN "bo_tabs"
                               ELSE IF w > 0 THEN "imm_trigger"
                               ELSE "done")
                /\ emitted[t][1].type = "store_url"
                /\ emitted[t][1].scheduled_in = w

C30_Witness ==
    \E t \in DOMAIN tl :
        /\ Started(t)
        /\ tl[t].delta = -(1439 * 60)
        /\ tl[t].wait = 60
        /\ tl[t].plan # <<>>
        /\ tl[t].pc = "imm_trigger"
        /\ emitted[t][1].scheduled_in = 60


(***************************************************************************)
(* Thresholds, sleeps and labels of the timelines.                         *)
(***************************************************************************)
\* the places in what task t handed to broadcast() where a message of this
\* type stands
PlacesOf(t, type) == {i \in 1..Len(emitted[t]) : emitted[t][i].type = type}

\* C32: in every timeline store_url is emitted first and exactly once and
\* trigger exactly once; pre_login_trigger is emitted (at most once, before
\* trigger) if and only if email and password are both present and the wait
\* is more than 120 s; execute_booking is emitted (at most once, after
\* trigger) if and only if the plan is not empty.  With a wait of exactly
\* 120 s there is no pre_login_trigger, and with a plan and a wait of exactly
\* 60 s the timeline is the immediate one: trigger and execute_booking come
\* together after the whole wait.
C32_ThresholdsStrictAndTotal ==
    \A t \in DOMAIN tl :
        Started(t) /\ tl[t].url # NoUrl =>
            LET over == tl[t].pc = "done"
                pre  == PlacesOf(t, "pre_login_trigger")
                trg  == PlacesOf(t, "trigger")
                exe  == PlacesOf(t, "execute_booking")
            IN  /\ PlacesOf(t, "store_url") = {1}
                /\ Cardinality(trg) <= 1
                /\ Cardinality(pre) <= 1
                /\ Cardinality(exe) <= 1
                /\ \A i \in pre : \A j \in trg : i < j
                /\ \A i \in exe : \E j \in trg : j < i
                /\ pre # {} => /\ HasCredentials(tl[t].email, tl[t].password)
                               /\ tl[t].wait > 120
                /\ exe # {} => tl[t].plan # <<>>
                /\ over =>
                    /\ Cardinality(trg) = 1
                    /\ pre # {} <=>
                          /\ HasCredentials(tl[t].email, tl[t].password)
                          /\ tl[t].wait > 120
                    /\ exe # {} <=> tl[t].plan # <<>>
                /\ tl[t].wait = 120 => pre = {}
                /\ (tl[t].plan # <<>> /\ tl[t].wait = 60) =>
                      /\ pre = {}
                      /\ \A j \in trg : emitted[t][j].at = 60
                      /\ \A i \in exe : emitted[t][i].at = 60

\* a finished timeline with credentials and a plan that had exactly 120 s to
\* wait: trigger after 60 s, execute_booking after 120 s, no login check
C32_Witness ==
    /\ "b1" \in DOMAIN tl
    /\ tl["b1"].pc = "done"
    /\ tl["b1"].plan # <<>>
    /\ HasCredentials(tl["b1"].email, tl["b1"].password)
    /\ tl["b1"].wait = 120
    /\ Len(emitted["b1"]) = 3
    /\ emitted["b1"][2].type = "trigger"
    /\ emitted["b1"][3].type = "execute_booking"


\* the rule the task took after store_url
RuleOf(t) == stage_rule(tl[t].email, tl[t].password, tl[t].plan, tl[t].wait)

\* C33: the sleeps before execute_booking add up to exactly the wait of the
\* timeline ((w-120)+60+60 in the full rule, (w-60)+60 in the booking-only
\* rule, w in the immediate rule), so execute_booking is never handed to the
\* agents before the trigger time; in the full and the booking-only rule the
\* trigger is handed over exactly 60 s of sleep before execute_booking.
C33_SleepsAddUpToWait ==
    \A t \in DOMAIN tl :
        Started(t) /\ tl[t].url # NoUrl /\ tl[t].wait >= 0 =>
            /\ \A i \in PlacesOf(t, "execute_booking") :
                  /\ emitted[t][i].at = tl[t].wait
                  /\ tl[t].slept = tl[t].wait
                  /\ RuleOf(t) \in {"full", "booking_only"} =>
                        \E j \in PlacesOf(t, "trigger") :
                            emitted[t][j].at + 60 = emitted[t][i].at
            /\ tl[t].slept <= tl[t].wait
            /\ tl[t].pc = "done" => tl[t].slept = tl[t].wait
            /\ RuleOf(t) \in {"full", "booking_only"} =>
                  \A j \in PlacesOf(t, "trigger") :
                      emitted[t][j].at = tl[t].wait - 60

\* two finished timelines next to each other, one that took the full rule
\* and one that took another rule, both with execute_booking sent
C33_Witness ==
    \E t \in DOMAIN tl : \E u \in DOMAIN tl :
        /\ tl[t].pc = "done" /\ tl[u].pc = "done"
        /\ RuleOf(t) = "full" /\ RuleOf(u) # "full"
        /\ PlacesOf(t, "execute_booking") = {4}
        /\ PlacesOf(u, "execute_booking") = {3}


\* the labels list of message m names the units of plan one by one
LabelsMatch(labels, plan) ==
    /\ Len(labels) = Len(plan)
    /\ \A i \in 1..Len(plan) : labels[i] = plan[i].time

\* C39: for a booking scheduled through schedule_booking, the labels carried
\* by store_url and by trigger have the length of slots_with_quantities and
\* the i-th label is the label of the i-th unit of the plan that store_url
\* and execute_booking carry, so a slot split into k units appears k times.
C39_LabelsFollowPlanUnits ==
    \A t \in DOMAIN tl \cap Ids :
        \A i \in PlacesOf(t, "store_url") \cup PlacesOf(t, "trigger") :
            /\ LabelsMatch(emitted[t][i].time_slots,
                           emitted[t][1].slots_with_quantities)
            /\ \A j \in PlacesOf(t, "execute_booking") :
                  LabelsMatch(emitted[t][i].time_slots,
                              emitted[t][j].slots_with_quantities)

\* a finished timeline whose first slot was split into three units: the
\* trigger names it three times and execute_booking carries four units
C39_Witness ==
    \E t \in DOMAIN tl \cap Ids :
        /\ tl[t].pc = "done"
        /\ \E i \in PlacesOf(t, "trigger") :
              /\ Len(emitted[t][i].time_slots) = 4
              /\ Cardinality({n \in 1..4 :
                     emitted[t][i].time_slots[n] = "9AM"}) = 3
        /\ \E j \in PlacesOf(t, "execute_booking") :
              Len(emitted[t][j].slots_with_quantities) = 4


(***************************************************************************)
(* Frame of broadcast_to_web.                                              *)
(***************************************************************************)
\* a step of a handler that reaches the store through broadcast_to_web
\* only: a message from an agent, or a step of a timeline
WebBroadcastStep ==
    \/ inbound' # inbound
    \/ DOMAIN tl' = DOMAIN tl /\ tl' # tl

\* the bookings named by the messages of type ty in ws
NamedBy(ws, ty) ==
    {ws[i].booking_id : i \in {j \in 1..Len(ws) : ws[j].type = ty}} \ {NoId}

\* C40: the messages a handler hands to broadcast_to_web leave the store as
\* it is when none of them is a booking_update or booking_event_log that
\* names a booking of the store; no record is added or removed; a record
\* that no such message names is unchanged; and a record that is named by
\* booking_update messages only differs in status, message and updated_at
\* at most.
C40_WebBroadcastFrame ==
    [][WebBroadcastStep =>
          LET old  == Stored(primary, shadow)
              new  == Stored(primary', shadow')
              ups  == NamedBy(web_sent', "booking_update")
              logs == NamedBy(web_sent', "booking_event_log")
          IN  /\ (ups \cup logs) \cap IdsOf(old) = {} =>
                    /\ primary' = primary
                    /\ shadow' = shadow
              /\ Len(new) = Len(old)
              /\ \A i \in 1..Len(old) :
                    /\ new[i].id = old[i].id
                    /\ old[i].id \notin ups \cup logs => new[i] = old[i]
                    /\ old[i].id \notin logs =>
                          \A k \in DOMAIN old[i] \ {"status", "message",
                                                    "updated_at"} :
                              new[i][k] = old[i][k]]_vars

\* two bookings are stored, the first with log entries; the last message of
\* an agent was a status update for the second, which now has that status,
\* and a log message that names no booking
C40_Witness ==
    /\ inbound > 0
    /\ Len(web_sent) = 2
    /\ web_sent[1].type = "log"
    /\ web_sent[1].store_op = "none"
    /\ web_sent[2].type = "booking_update"
    /\ web_sent[2].booking_id = "b2"
    /\ web_sent[2].stored
    /\ IdsOf(Stored(primary, shadow)) = {"b1", "b2"}
    /\ StatusOf(Stored(primary, shadow), "b2") = "completed"
    /\ LogsOf(Stored(primary, shadow), "b1") # <<>>


(***************************************************************************)
(* Attribution of the results of standalone agents.                        *)
(***************************************************************************)
\* the active bookings whose timeline has transmitted this url to the agents
TransmittedBy(url) ==
    {id \in DOMAIN active_bookings \cap DOMAIN tl :
        \E i \in 1..Len(emitted[id]) : emitted[id][i].url = url}

\* C38: a booking_result of a standalone agent is put down to the booking
\* whose timeline produced it and to no other: whichever of the active
\* bookings transmitted the url of the result, the status update and the
\* log entries of the handler name that booking and only that booking.
C38_ResultAttributedToOwnBooking ==
    [][\A m \in ClientMessages :
          (/\ inbound' = inbound + 1
           /\ m.type = "booking_result"
           /\ m.status \in {"success", "failed"}
           /\ ClientMessage(m)) =>
              \A own \in TransmittedBy(m.url) :
                  NamedBy(web_sent', "booking_update")
                     \cup NamedBy(web_sent', "booking_event_log") = {own}]_vars


(***************************************************************************)
(* The two files of the store under damage and crashes.                    *)
(***************************************************************************)
\* C34: once one write has completed, at every statement of every later
\* store operation (the copy into the backup, the truncation and rewrite of
\* the primary, the restoring write of a recovery), with the process killed
\* and started again anywhere, at least one of the two files holds a
\* complete record set that json.load accepts.
C34_OneFileAlwaysParseable ==
    journal.n >= 1 => (primary.kind = "json" \/ shadow.kind = "json")

\* C35: with a single writer, if the primary file is damaged after n >= 2
\* mutating calls have returned True, the next read returns the record set
\* as it was after the first n - 1 of them.
C35_RollbackByOneWrite ==
    [][(/\ journal.fresh
        /\ journal.n >= 2
        /\ ~journal'.fresh
        /\ last'.op = "get_all_bookings") =>
           /\ last'.data = journal.prev
           /\ last'.path = "recovered"
           /\ Stored(primary', shadow') = journal.prev]_vars

\* save, save, delete of the first, damage, read: the read has returned
\* both bookings, the set before the delete
C35_Witness ==
    /\ journal.n = 3
    /\ journal.faults = 1
    /\ ~journal.fresh
    /\ last.op = "get_all_bookings"
    /\ last.path = "recovered"
    /\ last.data = journal.prev
    /\ IdsOf(journal.prev) = {"b1", "b2"}
    /\ IdsOf(journal.cur) = {"b2"}


\* C36: a cancelled booking does not reappear in the store under any
\* interleaving with other store calls: when the delete of the cancellation
\* has returned True and the call of the other thread, which is not a create
\* for that id, has returned too, the store holds no record with that id.
C36_CancelledStaysDeleted ==
    \A t \in Threads : \A u \in Threads \ {t} :
        (/\ RaceOver
         /\ threads[t].call.op = "delete_booking"
         /\ threads[t].ok
         /\ ~(/\ threads[u].call.op = "save_booking"
              /\ threads[u].call.id = threads[t].call.id)) =>
            threads[t].call.id \notin IdsOf(StoredNow)


(***************************************************************************)
(* schedule_booking as a whole.                                            *)
(***************************************************************************)
\* C37: after the schedule_booking handler has finished, either the booking
\* is in the table of active bookings, its record is in the store and its
\* task has been started, or none of the three.
C37_ScheduleAllOrNothing ==
    [][Requested =>
          \A id \in Ids :
             LET active  == id \in DOMAIN active_bookings'
                               /\ id \notin DOMAIN active_bookings
                 stored  == id \in IdsOf(Stored(primary', shadow'))
                               /\ id \notin IdsOf(Stored(primary, shadow))
                 started == id \in DOMAIN tl' /\ id \notin DOMAIN tl
             IN  (active /\ stored /\ started)
                    \/ (~active /\ ~stored /\ ~started)]_vars


(***************************************************************************)
(* Timelines and delivery.                                                 *)
(***************************************************************************)
\* no agent can be sent anything: none is registered, or every registered
\* one has lost its connection
NoAgentReachable ==
    \A s \in AgentRegistry : ~CanSend(sessions, s)

Finished(t) ==
    /\ t \in DOMAIN tl
    /\ tl[t].pc = "done"
    /\ PlacesOf(t, "trigger") # {}

\* C31: every timeline that has been started hands trigger to broadcast()
\* and runs to its end, also when no agent is registered or every send to
\* an agent fails; a stage whose sends all fail is followed by the stage
\* after it as it is otherwise.
C31_TimelineAlwaysFinishes ==
    /\ \A t \in Ids : (t \in DOMAIN tl) ~> Finished(t)
    /\ [][\A t \in Ids :
            (/\ t \in DOMAIN tl
             /\ tl'[t].pc # tl[t].pc
             /\ NoAgentReachable) =>
                tl'[t].pc = (CASE tl[t].pc = "start" ->
                                    (IF RuleOf(t)' = "full" THEN "full_login"
                                     ELSE IF RuleOf(t)' = "booking_only"
                                     THEN "bo_tabs" ELSE "imm_trigger")
                               [] tl[t].pc = "full_login" -> "full_tabs"
                               [] tl[t].pc = "full_tabs" -> "full_execute"
                               [] tl[t].pc = "bo_tabs" -> "bo_execute"
                               [] OTHER -> "done")]_vars

\* a full staged timeline has run to its end with no session ever sent a
\* message of it: the standalone agent is registered with its connection
\* lost, the /ws agent was discarded after a send to it failed
C31_Witness ==
    /\ Finished("b1")
    /\ Len(emitted["b1"]) = 4
    /\ connected_clients = {"c1"}
    /\ sessions["c1"].link = "broken"
    /\ sessions["w1"].is_extension
    /\ "w1" \notin extension_clients
    /\ \A s \in Sessions : BroadcastsReceived(sessions[s].outbox) = <<>>

====
